---- MODULE Spec2Model ----
(***************************************************************************)
(* A model of fgd2js: the bounded lookahead stream (lookahead.ts), the     *)
(* tokenizer, the TokenStream wrapper, the expression parser, the          *)
(* declaration parser and the parse driver (fgd.ts).                       *)
(*                                                                         *)
(* Text is a sequence of one-character strings.  A token is a record       *)
(* [type, span]; `Undefined` stands for JavaScript's undefined where a     *)
(* token is expected.  An exception or a loop that never ends is carried   *)
(* in the `status` field of the stream that was being read: "ok",          *)
(* "error" (something was thrown) or "hang" (the code loops forever).      *)
(***************************************************************************)
EXTENDS Integers, Sequences, FiniteSets, TLC

VARIABLES
    la,      \* LookaheadSpec: the lookahead object under test
    out,     \* LookaheadSpec: results of the next() calls so far, in call order
    backs,   \* LookaheadSpec: number of back() calls so far
    last,    \* LookaheadSpec: the latest call, [op, value]
    undo,    \* LookaheadSpec: the latest call is back(x), right after a next() that returned x
    pre,     \* LookaheadSpec: the lookahead object as it was before the latest next()
    eos,     \* LookaheadSpec: the latest next() returned the end of the sequence, and no back() followed
    tk,      \* TokenizerSpec: the tokenizer generator, [input, idx, span_start, span_end, pc, quote, tokens]
    ex,      \* ExpressionSpec: one call of parse_expression, [input, pc, result]
    ps,      \* ParseSpec: the generator parse(), its locals, and the nodes it has yielded
    ms       \* MatchSpec: a TokenStream and its latest call, [ts, last]

laVars == <<la, out, backs, last, undo, pre, eos>>
vars == <<laVars, tk, ex, ps, ms>>

\* the value of the variables a specification does not use
Idle == "idle"

\* With([x \in {e} |-> body]) is body with x naming the value of e: a local
\* constant, e evaluated once
With(f) == f[CHOOSE x \in DOMAIN f : TRUE]

(***************************************************************************)
(* Bounds of the model.                                                    *)
(***************************************************************************)
MaxSrc == 4
MaxSize == 3
MaxNext == 6
MaxBack == 2
MaxInput == 3
MaxOverrun == 2
MaxDirectives == 2
MaxLexemes == 4

(***************************************************************************)
(* lookahead.ts                                                            *)
(***************************************************************************)
Undefined == [type |-> "undefined", span |-> <<0, 0>>]

\* new Array(n): n holes, each reads as undefined
NewArray(n) == [k \in 1..n |-> Undefined]

\* lookahead(iterable, size): `src` and `tail` are what the iterable will
\* produce: the items of src and then tail ("done": the end of the
\* sequence, "error": the producer throws, "hang": the producer never
\* returns).
lookahead(src, tail, size) ==
    [src |-> src, tail |-> tail, pos |-> 0, size |-> size,
     behindCache |-> NewArray(size + 1), aheadCache |-> <<>>,
     done |-> FALSE, status |-> "ok"]

\* iterator.next()
IteratorNext(l) ==
    IF l.status # "ok"
    THEN [la |-> l, done |-> TRUE, value |-> Undefined]
    ELSE IF l.pos < Len(l.src)
    THEN [la |-> [l EXCEPT !.pos = @ + 1], done |-> FALSE, value |-> l.src[l.pos + 1]]
    ELSE [la |-> [l EXCEPT !.status = IF l.tail = "done" THEN "ok" ELSE l.tail],
          done |-> TRUE, value |-> Undefined]

\* the while loop of ahead()
RECURSIVE AheadFill(_)
AheadFill(l) ==
    IF l.status # "ok" \/ ~(Len(l.aheadCache) <= l.size)
    THEN l
    ELSE With([item \in {IteratorNext(l)} |->
         IF item.done
         THEN item.la
         ELSE AheadFill([item.la EXCEPT !.aheadCache = Append(@, item.value)])])

\* ahead() without its refill loop
ahead_NoRefill(l, idx) ==
    IF idx > l.size \/ idx < 1
    THEN [la |-> l, value |-> Undefined, thrown |-> TRUE]
    ELSE [la |-> l,
          value |-> IF Len(l.aheadCache) = 0 \/ idx > Len(l.aheadCache)
                    THEN Undefined
                    ELSE l.aheadCache[idx],
          thrown |-> FALSE]

\* ahead(idx): [la, value, thrown]
ahead(l, idx) ==
    IF idx > l.size \/ idx < 1
    THEN [la |-> l, value |-> Undefined, thrown |-> TRUE]
    ELSE With([f \in {AheadFill(l)} |->
         [la |-> f,
          value |-> IF Len(f.aheadCache) = 0 \/ idx > Len(f.aheadCache)
                    THEN Undefined
                    ELSE f.aheadCache[idx],
          thrown |-> f.status # "ok"]])

\* behind() reading behindCache[idx - 1]
behind_OffByOne(l, idx) ==
    IF idx > l.size \/ idx < 1
    THEN [la |-> l, value |-> Undefined, thrown |-> TRUE]
    ELSE [la |-> l,
          value |-> IF Len(l.behindCache) = 0 \/ idx > Len(l.behindCache)
                    THEN Undefined
                    ELSE l.behindCache[idx],
          thrown |-> FALSE]

\* behind(idx): [la, value, thrown]
behind(l, idx) ==
    IF idx > l.size \/ idx < 1
    THEN [la |-> l, value |-> Undefined, thrown |-> TRUE]
    ELSE [la |-> l,
          value |-> IF Len(l.behindCache) = 0 \/ idx + 1 > Len(l.behindCache)
                    THEN Undefined
                    ELSE l.behindCache[idx + 1],
          thrown |-> FALSE]

\* done()
done(l) == l.done

\* the while loop of next(): [la, item]
RECURSIVE NextFill(_, _)
NextFill(l, item) ==
    IF ~item.done /\ Len(l.aheadCache) <= l.size
    THEN With([nxt \in {IteratorNext([l EXCEPT !.aheadCache = Append(@, item.value)])} |->
         NextFill(nxt.la, nxt)])
    ELSE [la |-> l, item |-> item]

\* behindCache.unshift(value); behindCache.pop()
BehindPush(cache, value) ==
    LET grown == <<value>> \o cache
    IN  SubSeq(grown, 1, Len(grown) - 1)

\* next() that forgets the item it pulled after the buffer was full
next_DropsPulled(l) ==
    With([first \in {IteratorNext(l)} |->
    With([filled \in {NextFill(first.la, first)} |->
    LET item == filled.item
        l2 == filled.la
    IN  IF l2.status # "ok"
        THEN [la |-> l2, done |-> TRUE, value |-> Undefined, thrown |-> TRUE]
        ELSE IF item.done /\ Len(l2.aheadCache) = 0
        THEN [la |-> [l2 EXCEPT !.done = TRUE],
              done |-> TRUE, value |-> Undefined, thrown |-> FALSE]
        ELSE IF Len(l2.aheadCache) = 0
        THEN [la |-> l2, done |-> FALSE, value |-> Undefined, thrown |-> FALSE]
        ELSE [la |-> [l2 EXCEPT !.aheadCache = Tail(@),
                                !.behindCache = BehindPush(@, Head(l2.aheadCache))],
              done |-> FALSE, value |-> Head(l2.aheadCache), thrown |-> FALSE]])])

\* next(): [la, done, value, thrown]
next(l) ==
    With([first \in {IteratorNext(l)} |->
    With([filled \in {NextFill(first.la, first)} |->
    LET item == filled.item
        l2 == IF ~item.done
              THEN [filled.la EXCEPT !.aheadCache = Append(@, item.value)]
              ELSE filled.la
    IN  IF l2.status # "ok"
        THEN [la |-> l2, done |-> TRUE, value |-> Undefined, thrown |-> TRUE]
        ELSE IF item.done /\ Len(l2.aheadCache) = 0
        THEN [la |-> [l2 EXCEPT !.done = TRUE],
              done |-> TRUE, value |-> Undefined, thrown |-> FALSE]
        ELSE [la |-> [l2 EXCEPT !.aheadCache = Tail(@),
                                !.behindCache = BehindPush(@, Head(l2.aheadCache))],
              done |-> FALSE, value |-> Head(l2.aheadCache), thrown |-> FALSE]])])

\* back() that queues the item behind the pending ones
back_Appends(l, item) ==
    [l EXCEPT !.aheadCache = Append(@, item),
              !.behindCache = IF Len(@) = 0 THEN @ ELSE Tail(@),
              !.done = FALSE]

\* back() that leaves the end-of-sequence state set
back_KeepsDone(l, item) ==
    [l EXCEPT !.aheadCache = <<item>> \o @,
              !.behindCache = IF Len(@) = 0 THEN @ ELSE Tail(@)]

\* back(item)
back(l, item) ==
    [l EXCEPT !.aheadCache = <<item>> \o @,
              !.behindCache = IF Len(@) = 0 THEN @ ELSE Tail(@),
              !.done = FALSE]

(***************************************************************************)
(* tokenizer                                                               *)
(***************************************************************************)
Letters ==
    {"a", "b", "c", "d", "e", "f", "g", "h", "i", "j", "k", "l", "m",
     "n", "o", "p", "q", "r", "s", "t", "u", "v", "w", "x", "y", "z",
     "A", "B", "C", "D", "E", "F", "G", "H", "I", "J", "K", "L", "M",
     "N", "O", "P", "Q", "R", "S", "T", "U", "V", "W", "X", "Y", "Z"}
Digits == {"0", "1", "2", "3", "4", "5", "6", "7", "8", "9"}

\* input[idx] where idx is past the end of the text
UndefinedChar == "undefined"

\* input[idx], idx counted from 0
CharAt(input, idx) ==
    IF idx >= 0 /\ idx < Len(input) THEN input[idx + 1] ELSE UndefinedChar

\* input.slice(from, to)
Slice(input, from, to) ==
    LET lo == IF from > Len(input) THEN Len(input) ELSE from
        hi == IF to > Len(input) THEN Len(input) ELSE to
    IN  IF hi <= lo THEN <<>> ELSE SubSeq(input, lo + 1, hi)

\* The regular expressions, as RegExp.test(char) answers; test(undefined)
\* tests the text "undefined", which the two NAME expressions match.
WHITESPACE(c) == c \in {" ", "\n", "\t", "\r"}
NAME_START(c) == c \in Letters \cup {"_"} \/ c = UndefinedChar
NAME_PART(c) == c \in Letters \cup Digits \cup {"/", "-", ".", "_"} \/ c = UndefinedChar
NUMBER(c) == c \in Digits \cup {"."}
SYMBOL(c) == c \in {"@", ",", ".", ":", "=", "+", "*", "&", ">", "~", "<", "!", "|", "^"}

\* while(WHITESPACE.test(char)) char = input[++idx]
RECURSIVE WhitespaceScan(_, _)
WhitespaceScan(input, idx) ==
    IF WHITESPACE(CharAt(input, idx)) THEN WhitespaceScan(input, idx + 1) ELSE idx

\* while(input[++idx] != '\n' && char !== undefined) char = input[idx]
RECURSIVE CommentScan(_, _, _)
CommentScan(input, idx, char) ==
    IF CharAt(input, idx + 1) # "\n" /\ char # UndefinedChar
    THEN CommentScan(input, idx + 1, CharAt(input, idx + 1))
    ELSE idx + 1

\* while(NAME_PART.test(input[++idx]) && input[idx] !== undefined);
RECURSIVE NamePartScan(_, _)
NamePartScan(input, idx) ==
    IF NAME_PART(CharAt(input, idx + 1)) /\ CharAt(input, idx + 1) # UndefinedChar
    THEN NamePartScan(input, idx + 1)
    ELSE idx + 1

\* while(NUMBER.test(input[++idx]));
RECURSIVE NumberScan(_, _)
NumberScan(input, idx) ==
    IF NUMBER(CharAt(input, idx + 1)) THEN NumberScan(input, idx + 1) ELSE idx + 1

\* tokenizer(input), before its first step
tokenizer(input) ==
    [input |-> input, idx |-> 0, span_start |-> 0, span_end |-> 0,
     pc |-> "loop", quote |-> "", tokens |-> <<>>]

\* yield token(type), with idx already advanced to `idx`
Yield(t, type, start, idx) ==
    [t EXCEPT !.idx = idx, !.span_start = start, !.span_end = idx,
              !.tokens = Append(@, [type |-> type, span |-> <<start, idx>>])]

\* One pass of the outer while loop, up to the next yield, continue, break
\* or throw, or up to the entry of a string literal's scan loop.
TokenizerLoop(t) ==
    IF ~(t.idx < Len(t.input))
    THEN [t EXCEPT !.pc = "done"]
    ELSE
    LET input == t.input
        idx == WhitespaceScan(input, t.idx)
        char == CharAt(input, idx)
        char_next == CharAt(input, idx + 1)
    IN  IF char = "/" /\ char_next = "/"
        THEN [t EXCEPT !.idx = CommentScan(input, idx, char)]
        ELSE IF char = UndefinedChar
        THEN [t EXCEPT !.idx = idx, !.pc = "done"]
        ELSE IF SYMBOL(char)
        THEN Yield(t, "symbol", idx, idx + 1)
        ELSE IF char = "(" \/ char = ")"
        THEN Yield(t, "paren", idx, idx + 1)
        ELSE IF char = "[" \/ char = "]"
        THEN Yield(t, "bracket", idx, idx + 1)
        ELSE IF char = "{" /\ char_next = "{"
        THEN Yield(t, "switch", idx, idx + 2)
        ELSE IF char = "}" /\ char_next = "}"
        THEN Yield(t, "switch", idx, idx + 2)
        ELSE IF char = "{" \/ char = "}"
        THEN Yield(t, "brace", idx, idx + 1)
        ELSE IF char = "\"" \/ char = "'"
        THEN [t EXCEPT !.idx = idx, !.span_start = idx + 1,
                       !.pc = "string", !.quote = char]
        ELSE IF NAME_START(char)
        THEN Yield(t, "ident", idx, NamePartScan(input, idx))
        ELSE IF char \in Digits \/ (char = "-" /\ NUMBER(char_next))
        THEN LET n == NumberScan(input, idx)
             IN  IF NAME_START(CharAt(input, n))
                 THEN Yield(t, "ident", idx, NamePartScan(input, n))
                 ELSE Yield(t, "number", idx, n)
        ELSE IF char = "-"
        THEN Yield(t, "symbol", idx, idx + 1)
        ELSE [t EXCEPT !.idx = idx, !.span_start = idx, !.pc = "error"]

\* One pass of a string literal's while(true) loop; on the closing quote
\* the token is yielded and idx moves past the quote.
TokenizerString(t) ==
    LET idx == t.idx + 1
        char == CharAt(t.input, idx)
    IN  IF char = t.quote /\ CharAt(t.input, idx - 1) # "\\"
        THEN [Yield(t, "string", t.span_start, idx) EXCEPT !.idx = idx + 1, !.pc = "loop"]
        ELSE [t EXCEPT !.idx = idx]

\* A string literal's loop run to its end: the token is yielded at the
\* first quote that no backslash precedes; without one the loop leaves the
\* text, every character it reads from there on is undefined, and it
\* never breaks.
TokenizerStringRun(t) ==
    LET ends == {i \in (t.idx + 1)..(Len(t.input) - 1) :
                    CharAt(t.input, i) = t.quote /\ CharAt(t.input, i - 1) # "\\"}
    IN  IF ends = {}
        THEN [t EXCEPT !.idx = Len(t.input), !.pc = "hang"]
        ELSE LET idx == CHOOSE i \in ends : \A j \in ends : i <= j
             IN  [Yield(t, "string", t.span_start, idx) EXCEPT !.idx = idx + 1, !.pc = "loop"]

\* The tokenizer run to its end: pc is "done", "error", or "hang".
RECURSIVE TokenizerRun(_)
TokenizerRun(t) ==
    IF t.pc \in {"done", "error", "hang"}
    THEN t
    ELSE IF t.pc = "string"
    THEN TokenizerRun(TokenizerStringRun(t))
    ELSE TokenizerRun(TokenizerLoop(t))

(***************************************************************************)
(* TokenStream                                                             *)
(*                                                                         *)
(* Every operation takes the stream and returns [ts, v]: the stream after  *)
(* the call and the value returned.  ts.status # "ok" means that an        *)
(* exception is propagating (or that the code loops forever); every        *)
(* operation then leaves the stream alone.                                 *)
(***************************************************************************)
DefaultSize == 2

\* an argument that was left out
NoType == "undefined"
NoValue == <<"undefined">>

\* new TokenStream(name, input) around an already built lookahead object
TokenStreamOver(input, l) ==
    [input |-> input, tokens |-> l, token |-> Undefined, status |-> l.status]

\* new TokenStream(name, input)
TokenStream(input) ==
    With([t \in {TokenizerRun(tokenizer(input))} |->
        TokenStreamOver(input, lookahead(t.tokens, t.pc, DefaultSize))])

Throw(ts) == [ts EXCEPT !.status = IF @ = "ok" THEN "error" ELSE @]

\* the stream with its lookahead object replaced by l
WithTokens(ts, l) ==
    [ts EXCEPT !.tokens = l, !.status = IF @ = "ok" THEN l.status ELSE @]

\* more()
TokenStream_more(ts) == ~done(ts.tokens)

\* pushback() that does not queue the item
pushback_Drops(ts, item) == ts

\* pushback(item)
pushback(ts, item) ==
    IF ts.status # "ok" THEN ts ELSE WithTokens(ts, back(ts.tokens, item))

\* current()
current(ts) == ts.token

\* span(token)
span(ts, token) == Slice(ts.input, token.span[1], token.span[2])

\* current_str()
current_str(ts) ==
    IF ts.status # "ok" THEN [ts |-> ts, v |-> <<>>]
    ELSE IF ts.token = Undefined THEN [ts |-> Throw(ts), v |-> <<>>]
    ELSE [ts |-> ts, v |-> span(ts, ts.token)]

\* next(): v is the token, or Undefined at the end of the sequence
TokenStream_next(ts) ==
    IF ts.status # "ok" THEN [ts |-> ts, v |-> Undefined]
    ELSE With([r \in {next(ts.tokens)} |->
         IF r.done
         THEN [ts |-> WithTokens(ts, r.la), v |-> Undefined]
         ELSE [ts |-> [WithTokens(ts, r.la) EXCEPT !.token = r.value], v |-> r.value]])

\* next_or_throw()
next_or_throw(ts) ==
    IF ts.status # "ok" THEN [ts |-> ts, v |-> Undefined]
    ELSE With([r \in {next(ts.tokens)} |->
         IF r.done
         THEN [ts |-> Throw(WithTokens(ts, r.la)), v |-> Undefined]
         ELSE [ts |-> [WithTokens(ts, r.la) EXCEPT !.token = r.value], v |-> r.value]])

\* this.#tokens.ahead(n)
TokensAhead(ts, n) ==
    IF ts.status # "ok" THEN [ts |-> ts, v |-> Undefined]
    ELSE With([r \in {ahead(ts.tokens, n)} |->
         IF r.thrown
         THEN [ts |-> Throw(WithTokens(ts, r.la)), v |-> Undefined]
         ELSE [ts |-> WithTokens(ts, r.la), v |-> r.value]])

\* the type and value tests shared by ahead, expect and match
Matches(ts, token, type, value) ==
    /\ token # Undefined
    /\ type = NoType \/ token.type = type
    /\ value = NoValue \/ span(ts, token) = value

\* ahead(ahead, type, value)
TokenStream_ahead(ts, n, type, value) ==
    With([a \in {TokensAhead(ts, n)} |->
        [ts |-> a.ts, v |-> IF Matches(a.ts, a.v, type, value) THEN a.v ELSE Undefined]])

\* behind(behind)
TokenStream_behind(ts, n) ==
    IF ts.status # "ok" THEN [ts |-> ts, v |-> Undefined]
    ELSE With([r \in {behind(ts.tokens, n)} |->
         IF r.thrown \/ r.value = Undefined
         THEN [ts |-> Throw(ts), v |-> Undefined]
         ELSE [ts |-> ts, v |-> r.value]])

\* expect(type, value)
expect(ts, type, value) ==
    With([a \in {TokensAhead(ts, 1)} |->
        IF a.ts.status # "ok" THEN [ts |-> a.ts, v |-> Undefined]
        ELSE IF ~Matches(a.ts, a.v, type, value) THEN [ts |-> Throw(a.ts), v |-> Undefined]
        ELSE next_or_throw(a.ts)])

\* expect_str(type, value)
expect_str(ts, type, value) ==
    With([e \in {expect(ts, type, value)} |->
        [ts |-> e.ts, v |-> IF e.ts.status = "ok" THEN span(e.ts, e.v) ELSE <<>>]])

\* match(type, value) that does not compare the text
match_AnyText(ts, type, value) ==
    With([a \in {TokensAhead(ts, 1)} |->
        IF a.ts.status # "ok" THEN [ts |-> a.ts, v |-> FALSE]
        ELSE IF ~Matches(a.ts, a.v, type, NoValue) THEN [ts |-> a.ts, v |-> FALSE]
        ELSE [ts |-> next_or_throw(a.ts).ts, v |-> TRUE]])

\* match(type, value)
match(ts, type, value) ==
    With([a \in {TokensAhead(ts, 1)} |->
        IF a.ts.status # "ok" THEN [ts |-> a.ts, v |-> FALSE]
        ELSE IF ~Matches(a.ts, a.v, type, value) THEN [ts |-> a.ts, v |-> FALSE]
        ELSE [ts |-> next_or_throw(a.ts).ts, v |-> TRUE]])

\* value.indexOf(text), counted from 0, -1 when absent
IndexOf(list, text) ==
    IF \E k \in 1..Len(list) : list[k] = text
    THEN (CHOOSE k \in 1..Len(list) :
              list[k] = text /\ \A j \in 1..(k - 1) : list[j] # text) - 1
    ELSE -1

\* match_one(type, value)
match_one(ts, type, value) ==
    With([a \in {TokensAhead(ts, 1)} |->
        IF a.ts.status # "ok" THEN [ts |-> a.ts, v |-> -1]
        ELSE IF a.v = Undefined \/ a.v.type # type THEN [ts |-> a.ts, v |-> -1]
        ELSE LET item == IndexOf(value, span(a.ts, a.v))
             IN  IF item = -1 THEN [ts |-> a.ts, v |-> -1]
                 ELSE [ts |-> next_or_throw(a.ts).ts, v |-> item]])

\* match_not(type, value, eof)
match_not(ts, type, value, eof) ==
    With([a \in {TokensAhead(ts, 1)} |->
        IF a.ts.status # "ok" THEN [ts |-> a.ts, v |-> FALSE]
        ELSE IF a.v = Undefined THEN [ts |-> a.ts, v |-> eof]
        ELSE IF a.v.type = type THEN [ts |-> a.ts, v |-> FALSE]
        ELSE IF value # NoValue /\ span(a.ts, a.v) = value THEN [ts |-> a.ts, v |-> FALSE]
        ELSE [ts |-> next_or_throw(a.ts).ts, v |-> TRUE]])

\* the while loop of literal()
RECURSIVE LiteralLoop(_, _)
LiteralLoop(ts, init) ==
    With([plus \in {match(ts, "symbol", <<"+">>)} |->
        IF ~plus.v
        THEN [ts |-> plus.ts, v |-> init]
        ELSE With([str \in {match(plus.ts, "string", NoValue)} |->
             IF str.v
             THEN LiteralLoop(str.ts, init \o <<"\n">> \o current_str(str.ts).v)
             ELSE LiteralLoop(str.ts, init)])])

\* literal(init): init is NoValue when the argument is left out
literal(ts, init) ==
    IF init = NoValue
    THEN With([e \in {expect_str(ts, "string", NoValue)} |-> LiteralLoop(e.ts, e.v)])
    ELSE LiteralLoop(ts, init)

(***************************************************************************)
(* Values of the syntax tree.  Every value is a record [t, s, kids, span]: *)
(* t is its kind ("string", "null", "undefined", "boolean", "array",       *)
(* "object", "entry", or an expression node's expr: "infix", "postfix",    *)
(* "unary"), s its text (a string's characters, an entry's key, a node's   *)
(* op), kids its parts (an array's items, an object's entries, an entry's  *)
(* value, a node's <<lhs, rhs>>).                                          *)
(***************************************************************************)
Val(t, s, kids, sp) == [t |-> t, s |-> s, kids |-> kids, span |-> sp]
Str(text) == Val("string", text, <<>>, <<0, 0>>)
Null == Val("null", <<>>, <<>>, <<0, 0>>)
Undef == Val("undefined", <<>>, <<>>, <<0, 0>>)
Bool(b) == Val("boolean", IF b THEN <<"true">> ELSE <<"false">>, <<>>, <<0, 0>>)
Array(items) == Val("array", <<>>, items, <<0, 0>>)
Expr(sp, expr, op, lhs, rhs) == Val(expr, op, <<lhs, rhs>>, sp)

\* !v
Falsy(v) == v \in {Null, Undef, Str(<<>>), Bool(FALSE)}

\* tokens.current()?.span || [0,0]
CurrentSpan(ts) == IF ts.token = Undefined THEN <<0, 0>> ELSE ts.token.span

\* tokens.current()?.span[1] || other
CurrentEnd(ts, other) ==
    IF ts.token = Undefined \/ ts.token.span[2] = 0 THEN other ELSE ts.token.span[2]

\* tokens.current()?.span[0] || other
CurrentStart(ts, other) ==
    IF ts.token = Undefined \/ ts.token.span[1] = 0 THEN other ELSE ts.token.span[1]

(***************************************************************************)
(* The expression parser                                                   *)
(***************************************************************************)
\* expression_precedence[op] is undefined
NoBp == -1

expression_precedence(op) ==
    CASE op \in {<<"*">>, <<"/">>, <<"%">>} -> 12
      [] op \in {<<"+">>, <<"-">>} -> 11
      [] op \in {<<"<", "<">>, <<">", ">">>} -> 10
      [] op \in {<<"<">>, <<"<", "=">>, <<">">>, <<">", "=">>} -> 9
      [] op \in {<<"=", "=">>, <<"!", "=">>} -> 8
      [] op = <<"&">> -> 7
      [] op = <<"^">> -> 6
      [] op = <<"|">> -> 5
      [] op = <<"&", "&">> -> 4
      [] op = <<"|", "|">> -> 3
      [] op = <<".", ".">> -> 2
      [] op = <<"-", ">">> -> 1
      [] OTHER -> NoBp

\* tokens.match('symbol', c) ? initial + c : other
Compose(ts, initial, c, other) ==
    With([m \in {match(ts, "symbol", <<c>>)} |->
        IF m.v THEN [ts |-> m.ts, v |-> initial \o <<c>>] ELSE [ts |-> m.ts, v |-> other]])

\* parse_operator(tokens, initial): initial is <<>> when it is left out
parse_operator(ts, initial) ==
    With([first \in {IF initial # <<>> THEN [ts |-> ts, v |-> initial]
                     ELSE With([m \in {match(ts, "symbol", NoValue)} |->
                          IF m.v THEN current_str(m.ts)
                          ELSE [ts |-> Throw(m.ts), v |-> <<>>]])} |->
    LET t == first.ts
        i == first.v
    IN  CASE i = <<"-">> -> Compose(t, i, ">", i)
          [] i = <<"<">> ->
                With([a \in {Compose(t, i, "<", i)} |->
                    IF a.v # i THEN a ELSE Compose(a.ts, i, "=", i)])
          [] i = <<">">> ->
                With([a \in {Compose(t, i, ">", i)} |->
                    IF a.v # i THEN a ELSE Compose(a.ts, i, "=", i)])
          [] i = <<"=">> -> Compose(t, i, "=", i)
          [] i = <<"!">> -> Compose(t, i, "=", i)
          [] i = <<"&">> -> Compose(t, i, "&", i)
          [] i = <<"|">> -> Compose(t, i, "|", i)
          [] OTHER -> [ts |-> t, v |-> i]])

\* parse_expression_terminal(tokens)
parse_expression_terminal(ts) ==
    With([s \in {match(ts, "string", NoValue)} |->
        IF s.v THEN [ts |-> s.ts, v |-> Str(current_str(s.ts).v)]
        ELSE With([i \in {match(s.ts, "ident", NoValue)} |->
        IF i.v THEN [ts |-> i.ts, v |-> Str(current_str(i.ts).v)]
        ELSE With([n \in {match(i.ts, "number", NoValue)} |->
        IF n.v THEN [ts |-> n.ts, v |-> Str(current_str(n.ts).v)]
        ELSE [ts |-> n.ts, v |-> Null]])])])

\* parse_expression(...) || []
OrEmpty(r) == [ts |-> r.ts, v |-> IF Falsy(r.v) THEN Array(<<>>) ELSE r.v]

\* the stream of a loop that can never end
Hang(ts) == [ts EXCEPT !.status = IF @ = "ok" THEN "hang" ELSE @]

RECURSIVE parse_expression(_, _)
RECURSIVE parse_expression_unary(_)
RECURSIVE ExpressionLoop(_, _, _)
RECURSIVE SwitchLoop(_, _, _)
RECURSIVE MapLoop(_, _)

\* The while(tokens.more()) loop of parse_expression.
ExpressionLoop(ts, min_bp, lhs) ==
    IF ts.status # "ok" \/ ~TokenStream_more(ts)
    THEN [ts |-> ts, v |-> lhs]
    ELSE
    With([sym \in {match(ts, "symbol", NoValue)} |->
        IF sym.v
        THEN With([op \in {parse_operator(sym.ts, current_str(sym.ts).v)} |->
             LET sp == CurrentSpan(sym.ts)
                 bp == expression_precedence(op.v)
             IN  IF bp = NoBp \/ bp < min_bp
                 THEN [ts |-> pushback(op.ts, [type |-> "symbol",
                                               span |-> <<sp[1], CurrentEnd(op.ts, sp[2])>>]),
                       v |-> lhs]
                 ELSE With([rhs \in {OrEmpty(parse_expression(op.ts, bp))} |->
                      ExpressionLoop(rhs.ts, min_bp,
                          Expr(<<sp[1], CurrentEnd(rhs.ts, sp[2])>>,
                               "infix", op.v, lhs, rhs.v))])])
        ELSE
        With([br \in {match(sym.ts, "bracket", <<"[">>)} |->
            IF br.v
            THEN With([rhs \in {OrEmpty(parse_expression(br.ts, 0))} |->
                 With([close \in {expect(rhs.ts, "bracket", <<"]">>)} |->
                 LET sp == CurrentSpan(br.ts)
                 IN  ExpressionLoop(close.ts, min_bp,
                         Expr(<<sp[1], CurrentEnd(close.ts, sp[2])>>,
                              "postfix", <<"[", "]">>, lhs, rhs.v))])])
            ELSE [ts |-> br.ts, v |-> lhs]])])

\* parse_expression(tokens, min_bp): v is Null when there is no expression
parse_expression(ts, min_bp) ==
    With([lhs_maybe \in {parse_expression_unary(ts)} |->
        IF lhs_maybe.v = Null \/ lhs_maybe.ts.status # "ok"
        THEN [ts |-> lhs_maybe.ts, v |-> Null]
        ELSE ExpressionLoop(lhs_maybe.ts, min_bp, lhs_maybe.v)])

\* The while(!tokens.match('switch', '}}')) loop: v is <<deflt, cases>>.
\* A pass that leaves the stream as it found it repeats forever.
SwitchLoop(ts, deflt, cases) ==
    With([close \in {match(ts, "switch", <<"}", "}">>)} |->
        IF close.ts.status # "ok" \/ close.v
        THEN [ts |-> close.ts, v |-> <<deflt, cases>>]
        ELSE
        With([lhs \in {parse_expression(close.ts, 0)} |->
        With([comma \in {match(lhs.ts, "symbol", <<",">>)} |->
            IF comma.ts.status # "ok"
            THEN [ts |-> comma.ts, v |-> <<deflt, cases>>]
            ELSE IF comma.ts = ts
            THEN [ts |-> Hang(ts), v |-> <<deflt, cases>>]
            ELSE IF lhs.v = Null
            THEN SwitchLoop(comma.ts, deflt, cases)
            ELSE IF lhs.v.t = "string" /\ Falsy(deflt)
            THEN SwitchLoop(comma.ts, lhs.v, cases)
            ELSE SwitchLoop(comma.ts, deflt, Append(cases, lhs.v))])])])

\* The while(!tokens.match('brace', '}')) loop: v is the list of entries.
MapLoop(ts, map) ==
    With([close \in {match(ts, "brace", <<"}">>)} |->
        IF close.ts.status # "ok" \/ close.v
        THEN [ts |-> close.ts, v |-> map]
        ELSE
        With([lhs \in {parse_expression(close.ts, 0)} |->
            IF lhs.ts.status # "ok"
            THEN [ts |-> lhs.ts, v |-> map]
            ELSE IF lhs.v = Null
            THEN IF lhs.ts = ts
                 THEN [ts |-> Hang(ts), v |-> map]
                 ELSE MapLoop(lhs.ts, map)
            ELSE
            With([colon \in {expect(lhs.ts, "symbol", <<":">>)} |->
            With([rhs \in {OrEmpty(parse_expression(colon.ts, 0))} |->
            With([comma \in {match(rhs.ts, "symbol", <<",">>)} |->
            LET sp == CurrentSpan(close.ts)
            IN  IF comma.ts.status # "ok"
                THEN [ts |-> comma.ts, v |-> map]
                ELSE MapLoop(comma.ts,
                         Append(map, Expr(<<sp[1], CurrentEnd(comma.ts, sp[2])>>,
                                          "infix", <<":">>, lhs.v, rhs.v)))])])])])])

\* parse_expression_unary(tokens)
parse_expression_unary(ts) ==
    With([sw \in {match(ts, "switch", <<"{", "{">>)} |->
    IF sw.v
    THEN With([body \in {SwitchLoop(sw.ts, Undef, <<>>)} |->
         LET sp == CurrentSpan(sw.ts)
         IN  [ts |-> body.ts,
              v |-> Expr(<<sp[1], CurrentEnd(body.ts, sp[2])>>, "unary",
                         <<"{", "{", "}", "}">>, body.v[1], Array(body.v[2]))]])
    ELSE
    With([bc \in {match(sw.ts, "brace", <<"{">>)} |->
    IF bc.v
    THEN With([body \in {MapLoop(bc.ts, <<>>)} |->
         LET sp == CurrentSpan(bc.ts)
         IN  [ts |-> body.ts,
              v |-> Expr(<<sp[1], CurrentEnd(body.ts, sp[2])>>, "unary",
                         <<"{", "}">>, Undef, Array(body.v))]])
    ELSE
    With([pa \in {match(bc.ts, "paren", <<"(">>)} |->
    IF pa.v
    THEN With([rhs \in {OrEmpty(parse_expression(pa.ts, 0))} |->
         With([close \in {expect(rhs.ts, "paren", <<")">>)} |->
         LET sp == CurrentSpan(pa.ts)
         IN  [ts |-> close.ts,
              v |-> Expr(<<sp[1], CurrentEnd(close.ts, sp[2])>>, "unary",
                         <<"(", ")">>, Undef, rhs.v)]])])
    ELSE
    With([br \in {match(pa.ts, "bracket", <<"[">>)} |->
    IF br.v
    THEN With([rhs \in {OrEmpty(parse_expression(br.ts, 0))} |->
         With([close \in {expect(rhs.ts, "bracket", <<"]">>)} |->
         LET sp == CurrentSpan(br.ts)
         IN  [ts |-> close.ts,
              v |-> Expr(<<sp[1], CurrentEnd(close.ts, sp[2])>>, "unary",
                         <<"[", "]">>, Undef, rhs.v)]])])
    ELSE
    With([pre1 \in {match_one(br.ts, "symbol",
                              <<(<<"+">>), (<<"-">>), (<<"!">>), (<<"~">>)>>)} |->
    IF pre1.v # -1
    THEN LET sp == CurrentSpan(pre1.ts)
             op == current_str(pre1.ts).v
             bp == expression_precedence(op)
         IN  With([rhs \in {OrEmpty(parse_expression(pre1.ts,
                                                     IF bp = NoBp THEN 0 ELSE bp))} |->
             [ts |-> rhs.ts,
              v |-> Expr(<<sp[1], CurrentEnd(pre1.ts, sp[2])>>, "unary",
                         op, Undef, rhs.v)]])
    ELSE parse_expression_terminal(pre1.ts)])])])])])

(***************************************************************************)
(* Texts, objects and lists, as the declaration parser and the driver use  *)
(* them.                                                                   *)
(***************************************************************************)
UpperCase ==
    <<"A", "B", "C", "D", "E", "F", "G", "H", "I", "J", "K", "L", "M",
      "N", "O", "P", "Q", "R", "S", "T", "U", "V", "W", "X", "Y", "Z">>
LowerCase ==
    <<"a", "b", "c", "d", "e", "f", "g", "h", "i", "j", "k", "l", "m",
      "n", "o", "p", "q", "r", "s", "t", "u", "v", "w", "x", "y", "z">>

\* text.toLowerCase()
toLowerCase(text) ==
    [k \in 1..Len(text) |->
        IF \E j \in 1..Len(UpperCase) : UpperCase[j] = text[k]
        THEN LowerCase[CHOOSE j \in 1..Len(UpperCase) : UpperCase[j] = text[k]]
        ELSE text[k]]

\* text.endsWith(suffix)
endsWith(text, suffix) ==
    /\ Len(text) >= Len(suffix)
    /\ SubSeq(text, Len(text) - Len(suffix) + 1, Len(text)) = suffix

\* \w of a regular expression
WordChar(c) == c \in Letters \cup Digits \cup {"_"}

\* (text.match(/\b\w/g) || []).length: the number of places where a word starts
WordStarts(text) ==
    Cardinality({k \in 1..Len(text) :
                    WordChar(text[k]) /\ (k = 1 \/ ~WordChar(text[k - 1]))})

\* (/^On[a-zA-Z].*$/).test(name)
OnName(name) ==
    /\ Len(name) >= 3
    /\ name[1] = "O"
    /\ name[2] = "n"
    /\ name[3] \in Letters
    /\ \A k \in 1..Len(name) : name[k] \notin {"\n", "\r"}

\* The characters of the texts, in the order of their code units.
CodeUnitOrder ==
    <<"\t", "\n", "\r", " ", "!", "\"", "#", "$", "%", "&", "'", "(", ")", "*",
      "+", ",", "-", ".", "/", "0", "1", "2", "3", "4", "5", "6", "7", "8", "9",
      ":", ";", "<", "=", ">", "?", "@",
      "A", "B", "C", "D", "E", "F", "G", "H", "I", "J", "K", "L", "M",
      "N", "O", "P", "Q", "R", "S", "T", "U", "V", "W", "X", "Y", "Z",
      "[", "\\", "]", "^", "_",
      "a", "b", "c", "d", "e", "f", "g", "h", "i", "j", "k", "l", "m",
      "n", "o", "p", "q", "r", "s", "t", "u", "v", "w", "x", "y", "z",
      "{", "|", "}", "~">>

\* the place of c in that order
CodeUnit(c) == CHOOSE k \in 1..Len(CodeUnitOrder) : CodeUnitOrder[k] = c

\* a < b, as the default comparison of sort() compares two texts
TextLess(a, b) ==
    \E k \in 1..Len(b) :
        /\ k - 1 <= Len(a)
        /\ \A j \in 1..(k - 1) : a[j] = b[j]
        /\ (k > Len(a) \/ CodeUnit(a[k]) < CodeUnit(b[k]))

\* String(v), the text sort() compares a list item by
SortKey(v) ==
    IF v.t = "string" THEN v.s
    ELSE IF v.t = "null" THEN <<"n", "u", "l", "l">>
    ELSE <<"[", "o", "b", "j", "e", "c", "t", " ", "O", "b", "j", "e", "c", "t", "]">>

\* the sorted list with v put behind every item that is not greater
RECURSIVE SortInsert(_, _)
SortInsert(list, v) ==
    IF list = <<>> THEN <<v>>
    ELSE IF TextLess(SortKey(v), SortKey(Head(list))) THEN <<v>> \o list
    ELSE <<Head(list)>> \o SortInsert(Tail(list), v)

\* list.sort()
RECURSIVE sort(_)
sort(list) ==
    IF list = <<>> THEN <<>>
    ELSE SortInsert(sort(SubSeq(list, 1, Len(list) - 1)), list[Len(list)])

\* list.includes(v): texts and null are compared by value, an expression
\* node is equal to itself alone, and every node pushed is a new one
includes(list, v) ==
    /\ v.t \in {"string", "null"}
    /\ \E k \in 1..Len(list) : list[k] = v

\* if(!list.includes(v)) list.push(v)
PushNew(list, v) == IF includes(list, v) THEN list ELSE Append(list, v)

\* digits without the zeros in front
RECURSIVE StripLeadingZeros(_)
StripLeadingZeros(digits) ==
    IF digits # <<>> /\ Head(digits) = "0" THEN StripLeadingZeros(Tail(digits)) ELSE digits

\* digits without the zeros at the end
RECURSIVE StripTrailingZeros(_)
StripTrailingZeros(digits) ==
    IF digits # <<>> /\ digits[Len(digits)] = "0"
    THEN StripTrailingZeros(SubSeq(digits, 1, Len(digits) - 1))
    ELSE digits

NaN == <<"N", "a", "N">>

\* Number(text) for the text of a number token (an optional -, then digits
\* and dots), as the numeral that prints it; the texts are short enough to
\* print without an exponent
Number(text) ==
    LET neg == text # <<>> /\ Head(text) = "-"
        body == IF neg THEN Tail(text) ELSE text
        dots == {k \in 1..Len(body) : body[k] = "."}
        dot == IF dots = {} THEN Len(body) + 1 ELSE CHOOSE k \in dots : TRUE
        int == StripLeadingZeros(SubSeq(body, 1, dot - 1))
        frac == StripTrailingZeros(SubSeq(body, dot + 1, Len(body)))
    IN  IF Cardinality(dots) > 1 \/ Len(body) = Cardinality(dots)
        THEN Val("number", NaN, <<>>, <<0, 0>>)
        ELSE Val("number",
                 (IF neg /\ (int # <<>> \/ frac # <<>>) THEN <<"-">> ELSE <<>>)
                     \o (IF int = <<>> THEN <<"0">> ELSE int)
                     \o (IF frac = <<>> THEN <<>> ELSE <<".">> \o frac),
                 <<>>, <<0, 0>>)

\* {key: value, ...}: an object is the list of its entries, in the order in
\* which the keys were first set
Object(entries) == Val("object", <<>>, entries, <<0, 0>>)
Entry(key, value) == Val("entry", key, <<value>>, <<0, 0>>)

\* object[key] = value
ObjectSet(object, key, value) ==
    IF \E k \in 1..Len(object.kids) : object.kids[k].s = key
    THEN [object EXCEPT !.kids = [k \in 1..Len(@) |->
                                     IF @[k].s = key THEN Entry(key, value) ELSE @[k]]]
    ELSE [object EXCEPT !.kids = Append(@, Entry(key, value))]

\* Object.assign(target, source)
RECURSIVE ObjectAssign(_, _)
ObjectAssign(target, source) ==
    IF source.kids = <<>> THEN target
    ELSE ObjectAssign(ObjectSet(target, Head(source.kids).s, Head(source.kids).kids[1]),
                      [source EXCEPT !.kids = Tail(@)])

(***************************************************************************)
(* The declaration parser                                                  *)
(***************************************************************************)
RECURSIVE parse_record(_, _)
RECURSIVE parse_array(_)
RECURSIVE RecordLoop(_, _, _)
RECURSIVE ArrayLoop(_, _)

\* The while(!tokens.match('brace', '}')) loop of parse_record.
RecordLoop(ts, json, record) ==
    With([close \in {match(ts, "brace", <<"}">>)} |->
    IF close.ts.status # "ok" \/ close.v
    THEN [ts |-> close.ts, v |-> record]
    ELSE
    With([pkey \in {expect_str(close.ts, IF json THEN "string" ELSE "ident", NoValue)} |->
    With([sep \in {match(pkey.ts, "symbol", IF json THEN <<":">> ELSE <<"=">>)} |->
    With([pval \in {
        IF ~sep.v THEN [ts |-> sep.ts, v |-> Bool(TRUE)]
        ELSE With([bc \in {match(sep.ts, "brace", <<"{">>)} |->
             IF bc.v THEN parse_record(bc.ts, FALSE)
             ELSE With([br \in {match(bc.ts, "bracket", <<"[">>)} |->
                  IF br.v THEN parse_array(br.ts)
                  ELSE With([n \in {next_or_throw(br.ts)} |->
                       [ts |-> n.ts, v |-> Str(span(n.ts, n.v))]])])])} |->
    With([comma \in {match(pval.ts, "symbol", <<",">>)} |->
    IF comma.ts.status # "ok"
    THEN [ts |-> comma.ts, v |-> record]
    ELSE RecordLoop(comma.ts, json, ObjectSet(record, pkey.v, pval.v))])])])])])

\* parse_record(tokens, json)
parse_record(ts, json) == RecordLoop(ts, json, Object(<<>>))

\* The while(!tokens.match('bracket', ']')) loop of parse_array.
ArrayLoop(ts, array) ==
    With([close \in {match(ts, "bracket", <<"]">>)} |->
    IF close.ts.status # "ok" \/ close.v
    THEN [ts |-> close.ts, v |-> Array(array)]
    ELSE
    With([pval \in {
        With([bc \in {match(close.ts, "brace", <<"{">>)} |->
        IF bc.v THEN parse_record(bc.ts, FALSE)
        ELSE With([br \in {match(bc.ts, "bracket", <<"[">>)} |->
             IF br.v THEN parse_array(br.ts)
             ELSE With([n \in {next_or_throw(br.ts)} |->
                  [ts |-> n.ts, v |-> Str(span(n.ts, n.v))]])])])} |->
    With([comma \in {match(pval.ts, "symbol", <<",">>)} |->
    IF comma.ts.status # "ok"
    THEN [ts |-> comma.ts, v |-> Array(array)]
    ELSE ArrayLoop(comma.ts, Append(array, pval.v))])])])

\* parse_array(tokens)
parse_array(ts) == ArrayLoop(ts, <<>>)

\* The decl that parse_class_body creates; a field that the code leaves
\* out is undefined.
PropDecl(span_start, kind, name) ==
    [span |-> <<span_start, span_start>>, kind |-> kind, name |-> name,
     class |-> <<"v", "o", "i", "d">>, title |-> <<>>, default |-> Null, description |-> <<>>,
     star |-> Undef, report |-> Undef, readonly |-> Undef, important |-> Undef,
     group |-> Undef, metaprops |-> Undef, choices |-> Undef]

\* while(tokens.match('symbol', ':')) decl.class += ':' + ...
RECURSIVE PropClassLoop(_, _)
PropClassLoop(ts, class) ==
    With([colon \in {match(ts, "symbol", <<":">>)} |->
    IF colon.ts.status # "ok" \/ ~colon.v
    THEN [ts |-> colon.ts, v |-> class]
    ELSE With([part \in {expect_str(colon.ts, "ident", NoValue)} |->
         PropClassLoop(part.ts, class \o <<":">> \o part.v)])])

\* if(!decl.metaprops) decl.metaprops = {}; decl.metaprops[key] = true
MetapropsFlag(decl, key) ==
    [decl EXCEPT !.metaprops =
        ObjectSet(IF Falsy(@) THEN Object(<<>>) ELSE @, key, Bool(TRUE))]

\* parse_prop_class(tokens, decl)
parse_prop_class(ts, decl) ==
    With([star \in {match(ts, "symbol", <<"*">>)} |->
    With([name \in {expect_str(star.ts, "ident", NoValue)} |->
    With([class \in {PropClassLoop(name.ts, toLowerCase(name.v))} |->
    With([close \in {expect(class.ts, "paren", <<")">>)} |->
    With([ro \in {match(close.ts, "ident", <<"r", "e", "a", "d", "o", "n", "l", "y">>)} |->
    With([rp \in {match(ro.ts, "ident", <<"r", "e", "p", "o", "r", "t">>)} |->
    LET d1 == [decl EXCEPT !.star = IF star.v THEN Bool(TRUE) ELSE @,
                           !.class = class.v]
        d2 == IF ro.v THEN MetapropsFlag(d1, current_str(ro.ts).v) ELSE d1
        d3 == IF rp.v THEN MetapropsFlag(d2, current_str(rp.ts).v) ELSE d2
    IN  [ts |-> rp.ts, v |-> d3]])])])])])])

\* The attribute loop of a property: v is <<decl, metaprops, metacount>>.
RECURSIVE AttributeLoop(_, _, _, _)
AttributeLoop(ts, decl, metaprops, metacount) ==
    With([close \in {match(ts, "bracket", <<"]">>)} |->
    IF close.ts.status # "ok" \/ close.v
    THEN [ts |-> close.ts, v |-> <<decl, metaprops, metacount>>]
    ELSE
    With([pnot \in {match(close.ts, "symbol", <<"!">>)} |->
    With([key \in {expect_str(pnot.ts, "ident", NoValue)} |->
    With([eq \in {match(key.ts, "symbol", <<"=">>)} |->
    With([str \in {IF eq.v THEN expect_str(eq.ts, "string", NoValue)
                   ELSE [ts |-> eq.ts, v |-> <<>>]} |->
    With([comma \in {match(str.ts, "symbol", <<",">>)} |->
    LET pkey == IF pnot.v THEN <<"!">> \o key.v ELSE key.v
        pval == IF eq.v THEN Str(str.v) ELSE Bool(TRUE)
        flag == IF Falsy(pval) THEN Bool(TRUE) ELSE pval
    IN  IF comma.ts.status # "ok"
        THEN [ts |-> comma.ts, v |-> <<decl, metaprops, metacount>>]
        ELSE IF pkey = <<"r", "e", "p", "o", "r", "t">>
        THEN AttributeLoop(comma.ts, [decl EXCEPT !.report = flag], metaprops, metacount)
        ELSE IF pkey = <<"r", "e", "a", "d", "o", "n", "l", "y">>
        THEN AttributeLoop(comma.ts, [decl EXCEPT !.readonly = flag], metaprops, metacount)
        ELSE IF pkey = <<"i", "m", "p", "o", "r", "t", "a", "n", "t">>
        THEN AttributeLoop(comma.ts, [decl EXCEPT !.important = flag], metaprops, metacount)
        ELSE IF pkey = <<"g", "r", "o", "u", "p">> /\ ~Falsy(pval)
        THEN AttributeLoop(comma.ts,
                 [decl EXCEPT !.group = IF pval = Bool(TRUE) THEN Str(<<"t", "r", "u", "e">>) ELSE pval],
                 metaprops, metacount)
        ELSE AttributeLoop(comma.ts, decl, ObjectSet(metaprops, pkey, pval),
                           metacount + 1)])])])])])])

\* if(tokens.match('bracket', '[')) { ... }: the attributes of a property
PropAttributes(ts, decl) ==
    With([open \in {match(ts, "bracket", <<"[">>)} |->
    IF ~open.v THEN [ts |-> open.ts, v |-> decl]
    ELSE With([loop \in {AttributeLoop(open.ts, decl, Object(<<>>), 0)} |->
         [ts |-> loop.ts,
          v |-> IF loop.v[3] # 0
                THEN [loop.v[1] EXCEPT !.metaprops = loop.v[2]]
                ELSE loop.v[1]]])])

\* if(tokens.match('brace', '{')) { ... }: the record of a property
PropRecord(ts, decl) ==
    With([open \in {match(ts, "brace", <<"{">>)} |->
    IF ~open.v THEN [ts |-> open.ts, v |-> decl]
    ELSE With([record \in {parse_record(open.ts, FALSE)} |->
         [ts |-> record.ts,
          v |-> [decl EXCEPT !.metaprops =
                    IF Falsy(@) THEN record.v ELSE ObjectAssign(@, record.v)]]])])

\* if(tokens.ahead(2, 'string') && tokens.match('symbol', ':'))
\*     decl.title = tokens.literal()
PropTitle(ts, decl) ==
    With([a \in {TokenStream_ahead(ts, 2, "string", NoValue)} |->
    IF a.v = Undefined THEN [ts |-> a.ts, v |-> decl]
    ELSE With([colon \in {match(a.ts, "symbol", <<":">>)} |->
         IF ~colon.v THEN [ts |-> colon.ts, v |-> decl]
         ELSE With([title \in {literal(colon.ts, NoValue)} |->
              [ts |-> title.ts, v |-> [decl EXCEPT !.title = title.v]]])])])

\* a property whose second colon clause is not read as its default
PropDefault_Skipped(ts, decl) == [ts |-> ts, v |-> decl]

\* if(tokens.match('symbol', ':') && !tokens.ahead(1, 'symbol', ':'))
\*     decl.default = parse_expression(tokens)
PropDefault(ts, decl) ==
    With([colon \in {match(ts, "symbol", <<":">>)} |->
    IF ~colon.v THEN [ts |-> colon.ts, v |-> decl]
    ELSE With([a \in {TokenStream_ahead(colon.ts, 1, "symbol", <<":">>)} |->
         IF a.v # Undefined THEN [ts |-> a.ts, v |-> decl]
         ELSE With([default \in {parse_expression(a.ts, 0)} |->
              [ts |-> default.ts, v |-> [decl EXCEPT !.default = default.v]]])])])

\* if(tokens.match('symbol', ':')) decl.description = tokens.literal()
PropDescription(ts, decl) ==
    With([colon \in {match(ts, "symbol", <<":">>)} |->
    IF ~colon.v THEN [ts |-> colon.ts, v |-> decl]
    ELSE With([description \in {literal(colon.ts, NoValue)} |->
         [ts |-> description.ts, v |-> [decl EXCEPT !.description = description.v]]])])

\* the test that takes a title for a description
TitleIsDescription(title) ==
    \/ Len(title) >= 80
    \/ Len(title) > 48
    \/ (Len(title) > 32 /\ endsWith(title, <<".">>))
    \/ (WordStarts(title) >= 3 /\ endsWith(title, <<".">>))
    \/ (WordStarts(title) >= 5 /\ Len(title) > 8)

\* the title and the description of a property, after the heuristic
PropHeuristic(decl) ==
    IF decl.title # <<>> /\ decl.description = <<>> /\ TitleIsDescription(decl.title)
    THEN [decl EXCEPT !.description = decl.title, !.title = <<>>]
    ELSE IF decl.title # <<>> /\ endsWith(decl.title, <<".">>)
    THEN [decl EXCEPT !.title = SubSeq(@, 1, Len(@) - 1)]
    ELSE decl

\* The while(!tokens.match('bracket', ']')) loop of a choices list.
RECURSIVE ChoicesLoop(_, _, _)
ChoicesLoop(ts, class, choices) ==
    With([close \in {match(ts, "bracket", <<"]">>)} |->
    IF close.ts.status # "ok" \/ close.v
    THEN [ts |-> close.ts, v |-> Array(choices)]
    ELSE
    With([cident \in {next_or_throw(close.ts)} |->
    With([colon \in {expect(cident.ts, "symbol", <<":">>)} |->
    With([cname \in {next_or_throw(colon.ts)} |->
    With([c2 \in {match(cname.ts, "symbol", <<":">>)} |->
    With([cdflt \in {IF c2.v THEN next_or_throw(c2.ts)
                     ELSE [ts |-> c2.ts, v |-> Undefined]} |->
    With([c3 \in {IF c2.v THEN match(cdflt.ts, "symbol", <<":">>)
                  ELSE [ts |-> cdflt.ts, v |-> FALSE]} |->
    With([cdesc \in {IF c3.v THEN next_or_throw(c3.ts)
                     ELSE [ts |-> c3.ts, v |-> Undefined]} |->
    LET text == span(cdflt.ts, cdflt.v)
        dflt == IF class = <<"f", "l", "a", "g", "s">> /\ text = <<"0">> THEN Bool(FALSE)
                ELSE IF class = <<"f", "l", "a", "g", "s">> /\ text = <<"1">> THEN Bool(TRUE)
                ELSE Str(text)
        choice == Object(
            <<Entry(<<"i", "d">>, Str(span(cdesc.ts, cident.v))),
              Entry(<<"n", "a", "m", "e">>, Str(span(cdesc.ts, cname.v)))>>
            \o (IF c2.v THEN <<Entry(<<"d", "e", "f", "a", "u", "l", "t">>, dflt)>> ELSE <<>>)
            \o (IF c3.v THEN <<Entry(<<"d", "e", "s", "c", "r", "i", "p", "t", "i", "o", "n">>, Str(span(cdesc.ts, cdesc.v)))>>
                ELSE <<>>))
    IN  IF cdesc.ts.status # "ok"
        THEN [ts |-> cdesc.ts, v |-> Array(choices)]
        ELSE ChoicesLoop(cdesc.ts, class, Append(choices, choice))])])])])])])])])

\* if(tokens.match('symbol', '=')) { ... }: the choices of a property
PropChoices(ts, decl) ==
    With([eq \in {match(ts, "symbol", <<"=">>)} |->
    IF ~(eq.v /\ decl.class \in {<<"i", "n", "t", "e", "g", "e", "r">>, <<"f", "l", "a", "g", "s">>, <<"c", "h", "o", "i", "c", "e", "s">>, <<"t", "a", "g", "_", "l", "i", "s", "t">>})
    THEN [ts |-> eq.ts, v |-> decl]
    ELSE With([open \in {expect(eq.ts, "bracket", <<"[">>)} |->
         With([choices \in {ChoicesLoop(open.ts, decl.class, <<>>)} |->
         [ts |-> choices.ts, v |-> [decl EXCEPT !.choices = choices.v]]])])])

\* One property of a class body: lines 352 to 479.
BodyEntry(ts) ==
    With([first \in {TokenStream_ahead(ts, 1, NoType, NoValue)} |->
    With([is_input \in {match(first.ts, "ident", <<"i", "n", "p", "u", "t">>)} |->
    With([is_output \in {IF is_input.v THEN [ts |-> is_input.ts, v |-> FALSE]
                         ELSE match(is_input.ts, "ident", <<"o", "u", "t", "p", "u", "t">>)} |->
    With([name \in {expect_str(is_output.ts, "ident", NoValue)} |->
    With([paren1 \in {match(name.ts, "paren", <<"(">>)} |->
    LET span_start == IF first.v = Undefined THEN 0 ELSE first.v.span[1]
        kind == IF is_input.v THEN "input"
                ELSE IF is_output.v \/ OnName(name.v) THEN "output"
                ELSE "prop"
        decl == PropDecl(span_start, kind, name.v)
    IN
    With([class1 \in {IF paren1.v THEN parse_prop_class(paren1.ts, decl)
                      ELSE [ts |-> paren1.ts, v |-> decl]} |->
    With([attrs \in {PropAttributes(class1.ts, class1.v)} |->
    With([paren2 \in {IF attrs.v.class = <<"v", "o", "i", "d">> THEN match(attrs.ts, "paren", <<"(">>)
                      ELSE [ts |-> attrs.ts, v |-> FALSE]} |->
    With([class2 \in {IF paren2.v THEN parse_prop_class(paren2.ts, attrs.v)
                      ELSE [ts |-> paren2.ts, v |-> attrs.v]} |->
    With([record \in {PropRecord(class2.ts, class2.v)} |->
    With([title \in {PropTitle(record.ts, record.v)} |->
    With([default \in {PropDefault(title.ts, title.v)} |->
    With([description \in {PropDescription(default.ts, default.v)} |->
    With([choices \in {PropChoices(description.ts, PropHeuristic(description.v))} |->
    [ts |-> choices.ts,
     v |-> [choices.v EXCEPT !.span = <<span_start, CurrentEnd(choices.ts, span_start)>>]]
    ])])])])])])])])])])])])])])

\* parse_class_body(tokens, node): v is the node with the properties added
RECURSIVE parse_class_body(_, _)
parse_class_body(ts, node) ==
    With([close \in {match(ts, "bracket", <<"]">>)} |->
    IF close.ts.status # "ok" \/ close.v
    THEN [ts |-> close.ts, v |-> node]
    ELSE With([decl \in {BodyEntry(close.ts)} |->
         IF decl.ts.status # "ok"
         THEN [ts |-> decl.ts, v |-> node]
         ELSE parse_class_body(decl.ts, [node EXCEPT !.body = Append(@, decl.v)])])])

\* The while(!tokens.match('paren', ')')) loop of a base clause.  A pass
\* that leaves the stream as it found it repeats forever.
RECURSIVE BaseArgsLoop(_, _)
BaseArgsLoop(ts, args) ==
    With([close \in {match(ts, "paren", <<")">>)} |->
    IF close.ts.status # "ok" \/ close.v
    THEN [ts |-> close.ts, v |-> args]
    ELSE
    With([arg \in {parse_expression(close.ts, 0)} |->
    With([comma \in {match(arg.ts, "symbol", <<",">>)} |->
    IF comma.ts.status # "ok"
    THEN [ts |-> comma.ts, v |-> args]
    ELSE IF comma.ts = ts
    THEN [ts |-> Hang(ts), v |-> args]
    ELSE BaseArgsLoop(comma.ts, Append(args, arg.v))])])])

\* {name, args} that keeps a single argument in a list
BaseDecl_Listed(name, args) ==
    [name |-> name, args |-> IF args.t = "array" THEN args ELSE Array(<<args>>)]

\* {name, args}
BaseDecl(name, args) == [name |-> name, args |-> args]

\* The while(tokens.match('ident')) loop of parse_class_decl.
RECURSIVE BaseLoop(_, _)
BaseLoop(ts, node) ==
    With([base \in {match(ts, "ident", NoValue)} |->
    IF base.ts.status # "ok" \/ ~base.v
    THEN [ts |-> base.ts, v |-> node]
    ELSE
    LET basename == current_str(base.ts).v
    IN
    With([bc \in {match(base.ts, "brace", <<"{">>)} |->
    With([clause \in {
        IF bc.v
        THEN With([record \in {parse_record(bc.ts, FALSE)} |->
             [ts |-> record.ts, v |-> BaseDecl(basename, record.v)]])
        ELSE With([pa \in {match(bc.ts, "paren", <<"(">>)} |->
             IF pa.v
             THEN With([args \in {BaseArgsLoop(pa.ts, <<>>)} |->
                  [ts |-> args.ts,
                   v |-> BaseDecl(basename,
                             IF Len(args.v) = 1 /\ args.v[1].t = "string"
                             THEN args.v[1]
                             ELSE Array(args.v))]])
             ELSE [ts |-> pa.ts, v |-> BaseDecl(basename, Array(<<>>))]])} |->
    IF clause.ts.status # "ok"
    THEN [ts |-> clause.ts, v |-> node]
    ELSE BaseLoop(clause.ts,
             [node EXCEPT !.meta = IF Falsy(@) THEN Array(<<>>) ELSE @,
                          !.impl = Append(@, clause.v)])])])])

\* while(tokens.match('bracket', '[')) parse_class_body(tokens, node)
RECURSIVE ClassBodies(_, _)
ClassBodies(ts, node) ==
    With([open \in {match(ts, "bracket", <<"[">>)} |->
    IF open.ts.status # "ok" \/ ~open.v
    THEN [ts |-> open.ts, v |-> node]
    ELSE With([body \in {parse_class_body(open.ts, node)} |->
         ClassBodies(body.ts, body.v)])])

\* parse_class_decl(tokens, node_kind); uuid is what randomUUID() returns
parse_class_decl(ts, node_kind, uuid) ==
    With([bases \in {BaseLoop(ts,
                         [span |-> <<CurrentStart(ts, 0), -1>>, type |-> "Class",
                          kind |-> node_kind, name |-> uuid, desc |-> Undef,
                          impl |-> <<>>, body |-> <<>>, meta |-> Undef])} |->
    With([eq \in {match(bases.ts, "symbol", <<"=">>)} |->
    With([name \in {IF eq.v THEN expect_str(eq.ts, "ident", NoValue)
                    ELSE [ts |-> eq.ts, v |-> uuid]} |->
    With([colon \in {match(name.ts, "symbol", <<":">>)} |->
    With([str \in {IF colon.v THEN match(colon.ts, "string", NoValue)
                   ELSE [ts |-> colon.ts, v |-> FALSE]} |->
    With([desc \in {IF str.v THEN literal(str.ts, current_str(str.ts).v)
                    ELSE [ts |-> str.ts, v |-> <<>>]} |->
    With([semicolon \in {match(desc.ts, "symbol", <<";">>)} |->
    LET header == [bases.v EXCEPT !.name = name.v,
                                  !.desc = IF str.v THEN Str(desc.v) ELSE @]
    IN  IF semicolon.v
        THEN [ts |-> semicolon.ts, v |-> header]
        ELSE ClassBodies(semicolon.ts, header)])])])])])])])

(***************************************************************************)
(* parse: the driver, a generator.  A call of its next() runs it up to its *)
(* next yield, its return, or its failure.                                 *)
(***************************************************************************)
\* parse(name, input), before its first step; pc is "loop" while the
\* generator stands in its loop, "end" after it has yielded the metadata,
\* "done" after it has returned, "error" after it has thrown, and "hang"
\* once it has entered a loop that it never leaves
parse(input) ==
    [input |-> input, tokens |-> TokenStream(input),
     classes |-> Object(<<>>), class_tags |-> <<>>, property_classes |-> <<>>,
     property_groups |-> <<>>, span_start |-> 0, pc |-> "loop", out |-> <<>>]

\* span: [span_start, tokens.current()?.span[1] || span_start]
NodeSpan(ts, span_start) == <<span_start, CurrentEnd(ts, span_start)>>

\* case 'version'
ParseVersion(ts, span_start) ==
    With([open \in {expect(ts, "paren", <<"(">>)} |->
    With([number \in {expect_str(open.ts, "number", NoValue)} |->
    With([close \in {expect(number.ts, "paren", <<")">>)} |->
    [ts |-> close.ts,
     v |-> [span |-> NodeSpan(close.ts, span_start), type |-> "Version",
            version |-> Number(number.v)]]])])])

\* case 'include'
ParseInclude(ts, span_start) ==
    With([name \in {expect_str(ts, "string", NoValue)} |->
    [ts |-> name.ts,
     v |-> [span |-> NodeSpan(name.ts, span_start), type |-> "Include",
            name |-> name.v]]])

\* case 'exclude'
ParseExclude(ts, span_start) ==
    With([name \in {expect_str(ts, "ident", NoValue)} |->
    [ts |-> name.ts,
     v |-> [span |-> NodeSpan(name.ts, span_start), type |-> "Exclude",
            name |-> name.v]]])

\* case 'mapsize'
ParseMapSize(ts, span_start) ==
    With([open \in {expect(ts, "paren", <<"(">>)} |->
    With([x \in {expect_str(open.ts, "number", NoValue)} |->
    With([comma \in {expect(x.ts, "symbol", <<",">>)} |->
    With([y \in {expect_str(comma.ts, "number", NoValue)} |->
    With([close \in {expect(y.ts, "paren", <<")">>)} |->
    [ts |-> close.ts,
     v |-> [span |-> NodeSpan(close.ts, span_start), type |-> "MapSize",
            x |-> x.v, y |-> y.v]]])])])])])

\* while(tokens.match('string')) list.push(tokens.current_str())
RECURSIVE ExclusionLoop(_, _)
ExclusionLoop(ts, list) ==
    With([str \in {match(ts, "string", NoValue)} |->
    IF str.ts.status # "ok" \/ ~str.v
    THEN [ts |-> str.ts, v |-> list]
    ELSE ExclusionLoop(str.ts, Append(list, current_str(str.ts).v))])

\* case 'materialexclusion'
ParseMaterialExclusion(ts, span_start) ==
    With([open \in {expect(ts, "bracket", <<"[">>)} |->
    With([list \in {ExclusionLoop(open.ts, <<>>)} |->
    With([close \in {expect(list.ts, "bracket", <<"]">>)} |->
    [ts |-> close.ts,
     v |-> [span |-> NodeSpan(close.ts, span_start), type |-> "MaterialExclusion",
            list |-> list.v]]])])])

\* the inner loop of 'autovisgroup': the items of one group
RECURSIVE GroupListLoop(_, _)
GroupListLoop(ts, group_list) ==
    With([close \in {match(ts, "bracket", <<"]">>)} |->
    IF close.ts.status # "ok" \/ close.v
    THEN [ts |-> close.ts, v |-> Array(group_list)]
    ELSE With([group_item \in {expect_str(close.ts, "string", NoValue)} |->
         With([comma \in {match(group_item.ts, "symbol", <<",">>)} |->
         IF comma.ts.status # "ok"
         THEN [ts |-> comma.ts, v |-> Array(group_list)]
         ELSE GroupListLoop(comma.ts, Append(group_list, Str(group_item.v)))])])])

\* the outer loop of 'autovisgroup': the groups
RECURSIVE GroupsLoop(_, _)
GroupsLoop(ts, groups) ==
    With([close \in {match(ts, "bracket", <<"]">>)} |->
    IF close.ts.status # "ok" \/ close.v
    THEN [ts |-> close.ts, v |-> groups]
    ELSE With([group_name \in {expect_str(close.ts, "string", NoValue)} |->
         With([open \in {expect(group_name.ts, "bracket", <<"[">>)} |->
         With([group_list \in {GroupListLoop(open.ts, <<>>)} |->
         IF group_list.ts.status # "ok"
         THEN [ts |-> group_list.ts, v |-> groups]
         ELSE GroupsLoop(group_list.ts,
                         ObjectSet(groups, group_name.v, group_list.v))])])])])

\* case 'autovisgroup'
ParseAutoVisGroup(ts, span_start) ==
    With([eq \in {expect(ts, "symbol", <<"=">>)} |->
    With([name \in {expect_str(eq.ts, "string", NoValue)} |->
    With([open \in {expect(name.ts, "bracket", <<"[">>)} |->
    With([groups \in {GroupsLoop(open.ts, Object(<<>>))} |->
    [ts |-> groups.ts,
     v |-> [span |-> NodeSpan(groups.ts, span_start), type |-> "AutoVisGroup",
            name |-> name.v, groups |-> groups.v]]])])])])

\* case 'entitygroup'
ParseEntityGroup(ts, span_start) ==
    With([name \in {expect_str(ts, "string", NoValue)} |->
    With([open \in {match(name.ts, "brace", <<"{">>)} |->
    With([meta \in {IF open.v THEN parse_record(open.ts, FALSE)
                    ELSE [ts |-> open.ts, v |-> Undef]} |->
    [ts |-> meta.ts,
     v |-> [span |-> NodeSpan(meta.ts, span_start), type |-> "EntityGroup",
            name |-> name.v, meta |-> meta.v]]])])])

\* the loop of 'visgroupfilter'
RECURSIVE FilterLoop(_, _)
FilterLoop(ts, args) ==
    With([close \in {match(ts, "brace", <<"}">>)} |->
    IF close.ts.status # "ok" \/ close.v
    THEN [ts |-> close.ts, v |-> args]
    ELSE With([key \in {expect_str(close.ts, "ident", NoValue)} |->
         With([eq \in {expect(key.ts, "symbol", <<"=">>)} |->
         With([val \in {expect_str(eq.ts, "string", NoValue)} |->
         IF val.ts.status # "ok"
         THEN [ts |-> val.ts, v |-> args]
         ELSE FilterLoop(val.ts, ObjectSet(args, key.v, Str(val.v)))])])])])

\* case 'visgroupfilter'
ParseVisGroupFilter(ts, span_start) ==
    With([open \in {expect(ts, "brace", <<"{">>)} |->
    With([args \in {FilterLoop(open.ts, Object(<<>>))} |->
    [ts |-> args.ts,
     v |-> [span |-> NodeSpan(args.ts, span_start), type |-> "VisGroupFilter",
            args |-> args.v]]])])

\* the test that takes a directive for a class declaration
IsClassDirective(node_type_i) ==
    \/ endsWith(node_type_i, <<"c", "l", "a", "s", "s">>)
    \/ endsWith(node_type_i, <<"e", "v", "e", "n", "t">>)
    \/ endsWith(node_type_i, <<"d", "a", "t", "a">>)
    \/ node_type_i = <<"s", "t", "r", "u", "c", "t">>

\* if(!classes[node_type]) classes[node_type] = [];
\* if(!classes[node_type].includes(name)) classes[node_type].push(name)
RegisterClass(classes, node_type, name) ==
    LET known == \E k \in 1..Len(classes.kids) : classes.kids[k].s = node_type
        names == IF known
                 THEN (CHOOSE e \in {classes.kids[k] : k \in 1..Len(classes.kids)} :
                           e.s = node_type).kids[1].kids
                 ELSE <<>>
    IN  ObjectSet(classes, node_type, Array(PushNew(names, Str(name))))

\* the tags that one base clause adds to class_tags
RECURSIVE PushTags(_, _)
PushTags(class_tags, tags) ==
    IF tags = <<>> THEN class_tags
    ELSE PushTags(PushNew(class_tags, Head(tags)), Tail(tags))

\* class_decl.impl.forEach(...)
RECURSIVE CollectTags(_, _)
CollectTags(class_tags, impl) ==
    IF impl = <<>> THEN class_tags
    ELSE LET base == Head(impl)
             tags == IF base.name # <<"t", "a", "g", "s">> THEN <<>>
                     ELSE IF base.args.t = "string" THEN <<base.args>>
                     ELSE IF base.args.t = "array" THEN base.args.kids
                     ELSE <<>>
         IN  CollectTags(PushTags(class_tags, tags), Tail(impl))

\* class_decl.body.forEach(...): v is <<property_classes, property_groups>>
RECURSIVE CollectProperties(_, _, _)
CollectProperties(property_classes, property_groups, body) ==
    IF body = <<>> THEN <<property_classes, property_groups>>
    ELSE LET decl == Head(body)
         IN  CollectProperties(
                 PushNew(property_classes, Str(decl.class)),
                 IF Falsy(decl.group) THEN property_groups
                 ELSE PushNew(property_groups, decl.group),
                 Tail(body))

\* the generator after it has thrown or has entered an endless loop
ParseFails(p, ts) == [p EXCEPT !.tokens = ts, !.pc = ts.status]

\* yield that hands the node out ahead of the nodes yielded before it
ParseYields_Prepends(p, r) ==
    IF r.ts.status # "ok" THEN ParseFails(p, r.ts)
    ELSE [p EXCEPT !.tokens = r.ts, !.out = <<r.v>> \o @]

\* yield node, after the call(s) that left the stream at ts
ParseYields(p, r) ==
    IF r.ts.status # "ok" THEN ParseFails(p, r.ts)
    ELSE [p EXCEPT !.tokens = r.ts, !.out = Append(@, r.v)]

\* the class branch of the loop: lines 751 to 785
ParseClass(p, ts, node_type, uuid) ==
    With([class_decl \in {parse_class_decl(ts, node_type, uuid)} |->
    LET node == [class_decl.v EXCEPT
                    !.span = <<@[1], CurrentEnd(class_decl.ts, p.span_start)>>]
        properties == CollectProperties(p.property_classes, p.property_groups, node.body)
    IN  IF class_decl.ts.status # "ok" THEN ParseFails(p, class_decl.ts)
        ELSE [p EXCEPT !.tokens = class_decl.ts,
                       !.classes = RegisterClass(@, node_type, node.name),
                       !.class_tags = CollectTags(@, node.impl),
                       !.property_classes = properties[1],
                       !.property_groups = properties[2],
                       !.out = Append(@, node)]])

\* the end of parse: lines 892 to 901
ParseMetadata(p, ts) ==
    LET span_end == CurrentEnd(ts, p.span_start)
    IN  [p EXCEPT !.tokens = ts, !.pc = "end",
                  !.out = Append(@,
                      [span |-> <<0, span_end>>, type |-> "__PARSER_METADATA__",
                       meta |-> [classes |-> [k \in 1..Len(p.classes.kids) |->
                                                 sort(p.classes.kids[k].kids[1].kids)],
                                 class_tags |-> sort(p.class_tags),
                                 property_classes |-> sort(p.property_classes)]])]

\* the body of if(tokens.match('symbol', '@')): lines 741 to 883
ParseDirective(p, ts, uuid) ==
    With([node_type \in {expect_str(ts, "ident", NoValue)} |->
    LET span_start == CurrentStart(ts, 0)
        q == [p EXCEPT !.span_start = span_start]
        node_type_i == toLowerCase(node_type.v)
        t == node_type.ts
    IN  IF t.status # "ok" THEN ParseFails(q, t)
        ELSE IF IsClassDirective(node_type_i) THEN ParseClass(q, t, node_type.v, uuid)
        ELSE IF node_type_i = <<"v", "e", "r", "s", "i", "o", "n">> THEN ParseYields(q, ParseVersion(t, span_start))
        ELSE IF node_type_i = <<"i", "n", "c", "l", "u", "d", "e">> THEN ParseYields(q, ParseInclude(t, span_start))
        ELSE IF node_type_i = <<"e", "x", "c", "l", "u", "d", "e">> THEN ParseYields(q, ParseExclude(t, span_start))
        ELSE IF node_type_i = <<"m", "a", "p", "s", "i", "z", "e">> THEN ParseYields(q, ParseMapSize(t, span_start))
        ELSE IF node_type_i = <<"m", "a", "t", "e", "r", "i", "a", "l", "e", "x", "c", "l", "u", "s", "i", "o", "n">>
        THEN ParseYields(q, ParseMaterialExclusion(t, span_start))
        ELSE IF node_type_i = <<"a", "u", "t", "o", "v", "i", "s", "g", "r", "o", "u", "p">>
        THEN ParseYields(q, ParseAutoVisGroup(t, span_start))
        ELSE IF node_type_i = <<"e", "n", "t", "i", "t", "y", "g", "r", "o", "u", "p">>
        THEN ParseYields(q, ParseEntityGroup(t, span_start))
        ELSE IF node_type_i = <<"v", "i", "s", "g", "r", "o", "u", "p", "f", "i", "l", "t", "e", "r">>
        THEN ParseYields(q, ParseVisGroupFilter(t, span_start))
        ELSE ParseFails(q, Throw(t))])

\* One call of the generator's next(): the loop of parse up to the next
\* yield, or the return after the metadata has been yielded.
ParseResume(p, uuid) ==
    IF p.pc = "end" THEN [p EXCEPT !.pc = "done"]
    ELSE IF p.pc # "loop" THEN p
    ELSE IF ~TokenStream_more(p.tokens) THEN ParseMetadata(p, p.tokens)
    ELSE With([at \in {match(p.tokens, "symbol", <<"@">>)} |->
         IF at.ts.status # "ok" THEN ParseFails(p, at.ts)
         ELSE IF at.v THEN ParseDirective(p, at.ts, uuid)
         ELSE With([token \in {TokenStream_next(at.ts)} |->
              IF token.ts.status # "ok" THEN ParseFails(p, token.ts)
              ELSE IF token.v = Undefined THEN ParseMetadata(p, token.ts)
              ELSE ParseFails(p, Throw(token.ts))])])

(***************************************************************************)
(* LookaheadSpec: a lookahead object over a finite source, driven by any   *)
(* sequence of next(), back(), ahead() and behind() calls.                 *)
(***************************************************************************)
Item(k) == [type |-> "ident", span |-> <<k - 1, k>>]
Synthetic == [type |-> "symbol", span |-> <<0, 2>>]
EndOfSequence == [type |-> "done", span |-> <<0, 0>>]
RangeError == [type |-> "RangeError", span |-> <<0, 0>>]
NoCall == [op |-> "none", value |-> Undefined]

SeqsUpTo(S, n) == UNION {[1..m -> S] : m \in 0..n}

LaInit ==
    /\ \E n \in 0..MaxSrc, size \in 1..MaxSize :
          la = lookahead([k \in 1..n |-> Item(k)], "done", size)
    /\ out = <<>>
    /\ backs = 0
    /\ last = NoCall
    /\ undo = FALSE
    /\ pre = la
    /\ eos = FALSE
    /\ tk = Idle
    /\ ex = Idle
    /\ ps = Idle
    /\ ms = Idle

CallNext ==
    /\ Len(out) < MaxNext
    /\ LET r == next(la)
           v == IF r.done THEN EndOfSequence ELSE r.value
       IN  /\ la' = r.la
           /\ out' = Append(out, v)
           /\ last' = [op |-> "next", value |-> v]
           /\ eos' = r.done
    /\ pre' = la
    /\ undo' = FALSE
    /\ UNCHANGED <<backs, tk, ex, ps, ms>>

\* back(item): the item is the one the latest next() returned, or a synthetic one
CallBack ==
    /\ backs < MaxBack
    /\ \E item \in {Synthetic} \cup
                    (IF last.op = "next" /\ last.value # EndOfSequence
                     THEN {last.value} ELSE {}) :
          /\ la' = back(la, item)
          /\ undo' = (last.op = "next" /\ last.value = item)
          /\ last' = [op |-> "back", value |-> item]
    /\ backs' = backs + 1
    /\ eos' = FALSE
    /\ UNCHANGED <<out, pre, tk, ex, ps, ms>>

CallAhead ==
    /\ \E idx \in 0..(MaxSize + 1) :
          LET r == ahead(la, idx)
          IN  /\ la' = r.la
              /\ last' = [op |-> "ahead",
                          value |-> IF r.thrown THEN RangeError ELSE r.value]
    /\ undo' = FALSE
    /\ pre' = la'
    /\ UNCHANGED <<out, backs, eos, tk, ex, ps, ms>>

CallBehind ==
    /\ \E idx \in 0..(MaxSize + 1) :
          LET r == behind(la, idx)
          IN  /\ la' = r.la
              /\ last' = [op |-> "behind",
                          value |-> IF r.thrown THEN RangeError ELSE r.value]
    /\ undo' = FALSE
    /\ pre' = la'
    /\ UNCHANGED <<out, backs, eos, tk, ex, ps, ms>>

LaNext == CallNext \/ CallBack \/ CallAhead \/ CallBehind

LookaheadSpec == LaInit /\ [][LaNext]_vars

(***************************************************************************)
(* TokenizerSpec: the tokenizer generator stepped over every text of up to *)
(* MaxInput characters of Alphabet.                                        *)
(***************************************************************************)
Alphabet == {"a", "1", "-", ".", "\"", "'", "\\", " ", "/", "\n", "{", "}", ";", "@"}

LaIdle ==
    /\ la = Idle /\ out = Idle /\ backs = Idle /\ last = Idle
    /\ undo = Idle /\ pre = Idle /\ eos = Idle

TkInit ==
    /\ \E input \in SeqsUpTo(Alphabet, MaxInput) : tk = tokenizer(input)
    /\ LaIdle
    /\ ex = Idle
    /\ ps = Idle
    /\ ms = Idle

StepLoop ==
    /\ tk.pc = "loop"
    /\ tk' = TokenizerLoop(tk)
    /\ UNCHANGED <<laVars, ex, ps, ms>>

\* idx grows without limit once a string literal's loop has left the text;
\* the model follows it MaxOverrun characters past the end.
StepString ==
    /\ tk.pc = "string"
    /\ tk.idx < Len(tk.input) + MaxOverrun
    /\ tk' = TokenizerString(tk)
    /\ UNCHANGED <<laVars, ex, ps, ms>>

TkNext == StepLoop \/ StepString

TokenizerSpec == TkInit /\ [][TkNext]_vars

(***************************************************************************)
(* ExpressionSpec: parse_expression(tokens, 0) applied to a fresh          *)
(* TokenStream over each text of ExpressionInputs.                         *)
(***************************************************************************)
\* the operators of the expression_precedence table
TableOps ==
    {<<"*">>, <<"/">>, <<"%">>, <<"+">>, <<"-">>, <<"<", "<">>, <<">", ">">>,
     <<"<">>, <<"<", "=">>, <<">">>, <<">", "=">>, <<"=", "=">>, <<"!", "=">>,
     <<"&">>, <<"^">>, <<"|">>, <<"&", "&">>, <<"|", "|">>, <<".", ".">>,
     <<"-", ">">>}

\* x op y
Binary(op) == <<"x", " ">> \o op \o <<" ", "y">>

\* x op1 y op2 z
Chain(op1, op2) == <<"x", " ">> \o op1 \o <<" ", "y", " ">> \o op2 \o <<" ", "z">>

\* a == "b" -> { c: "d" }
ArrowExample ==
    <<"a", " ", "=", "=", " ", "\"", "b", "\"", " ", "-", ">", " ",
      "{", " ", "c", ":", " ", "\"", "d", "\"", " ", "}">>

\* texts that exercise the other forms of the expression grammar
OtherExpressions ==
    {<<>>,
     <<"{", "{", " ", "\"", "m", "\"", ",", " ", "a", " ", "-", ">", " ", "b", " ", "}", "}">>,
     <<"{", "{", " ", "a", " ", ")">>,
     <<"{", " ", "a", " ", "}">>,
     <<"(", "a", " ", "+", " ", "b", ")", " ", "*", " ", "c">>,
     <<"a", "[", "1", "]", " ", "+", " ", "b">>,
     <<"[", "a", "]">>,
     <<"-", " ", "a", " ", "*", " ", "b">>,
     <<"!", "a", " ", "=", "=", " ", "b">>,
     <<"a", " ", "-", " ", ">", " ", "b">>,
     <<"a", " ", "+", " ", "\"", "b">>}

ExpressionInputs ==
    {Binary(op) : op \in TableOps}
        \cup {Chain(op1, op2) : op1 \in TableOps, op2 \in TableOps}
        \cup {ArrowExample}
        \cup OtherExpressions

ExInit ==
    /\ \E input \in ExpressionInputs : ex = [input |-> input, pc |-> "start", result |-> Null]
    /\ LaIdle
    /\ tk = Idle
    /\ ps = Idle
    /\ ms = Idle

\* pc becomes "ok" (a value or null was returned), "error" (something was
\* thrown) or "hang" (the call never returns)
CallParseExpression ==
    /\ ex.pc = "start"
    /\ LET r == parse_expression(TokenStream(ex.input), 0)
       IN  ex' = [ex EXCEPT !.pc = r.ts.status, !.result = r.v]
    /\ UNCHANGED <<laVars, tk, ps, ms>>

ExNext == CallParseExpression

ExpressionSpec == ExInit /\ [][ExNext]_vars

(***************************************************************************)
(* ParseSpec: the generator parse() over each text of ParseInputs, resumed *)
(* until it has returned, thrown, or entered a loop that it never leaves.  *)
(***************************************************************************)
\* what randomUUID() can return
UUIDs == {<<"u", "u", "i", "d", "-", "1">>, <<"u", "u", "i", "d", "-", "2">>}

\* @SolidClass = worldspawn : "World entity" [ entry ]
ClassWith(entry) ==
    <<"@", "S", "o", "l", "i", "d", "C", "l", "a", "s", "s", " ", "=",
          " ", "w", "o", "r", "l", "d", "s", "p", "a", "w", "n", " ", ":",
          " ", "\"", "W", "o", "r", "l", "d", " ", "e", "n", "t", "i", "t",
          "y", "\"", " ", "[", " ">>
        \o entry \o <<" ", "]">>

\* the class with the one property  message(string) : "S1" : "S2"
TwoStrings(S1, S2) ==
    ClassWith(<<"m", "e", "s", "s", "a", "g", "e", "(", "s", "t", "r", "i",
                "n", "g", ")">>
                  \o <<" ", ":", " ", "\"">> \o S1 \o <<"\"", " ", ":", " ", "\"">> \o S2 \o <<"\"">>)

\* first strings: empty, a title, a title with a full stop, and texts that
\* the heuristic takes for descriptions
Titles ==
    {<<>>,
     <<"M", "e", "s", "s", "a", "g", "e">>,
     <<"S", "h", "o", "w", "n", ".">>,
     <<"O", "n", "e", " ", "t", "w", "o", " ", "t", "h", "r", "e", "e", ".">>,
     <<"a", " ", "b", " ", "c", " ", "d", " ", "e", " ", "f">>,
     <<"T", "h", "e", " ", "t", "e", "x", "t", " ", "t", "h", "a", "t", " ",
       "i", "s", " ", "d", "i", "s", "p", "l", "a", "y", "e", "d", " ", "o",
       "n", " ", "e", "n", "t", "e", "r", "i", "n", "g", " ", "t", "h", "i",
       "s", " ", "w", "o", "r", "l", "d">>}

\* second strings
Texts ==
    {<<>>,
     <<"T", "e", "x", "t", " ", "o", "n", " ", "e", "n", "t", "e", "r", "i",
       "n", "g", " ", "t", "h", "e", " ", "w", "o", "r", "l", "d">>,
     <<"0">>}

\* @BaseClass base1 = Name;
SemicolonExample ==
    <<"@", "B", "a", "s", "e", "C", "l", "a", "s", "s", " ", "b", "a", "s",
      "e", "1", " ", "=", " ", "N", "a", "m", "e", ";">>

\* @BaseClass base1 = Name; @version(8)
SemicolonThenVersion ==
    <<"@", "B", "a", "s", "e", "C", "l", "a", "s", "s", " ", "b", "a", "s",
      "e", "1", " ", "=", " ", "N", "a", "m", "e", ";", " ", "@", "v", "e",
      "r", "s", "i", "o", "n", "(", "8", ")">>

\* @PointClass = a; @PointClass = b []
SemicolonThenClass ==
    <<"@", "P", "o", "i", "n", "t", "C", "l", "a", "s", "s", " ", "=", " ",
      "a", ";", " ", "@", "P", "o", "i", "n", "t", "C", "l", "a", "s", "s",
      " ", "=", " ", "b", " ", "[", "]">>

SemicolonInputs == {SemicolonExample, SemicolonThenVersion, SemicolonThenClass}

\* other texts: every directive, the forms of a property, and texts that
\* are not well formed
OtherInputs ==
    {\* 
     <<>>,
     \* // nothing\n
     <<"/", "/", " ", "n", "o", "t", "h", "i", "n", "g", "\n">>,
     \* @BaseClass base1 = Name []
     <<"@", "B", "a", "s", "e", "C", "l", "a", "s", "s", " ", "b", "a", "s",
       "e", "1", " ", "=", " ", "N", "a", "m", "e", " ", "[", "]">>,
     \* @BaseClass base1 base2(1,2) = Name [ ]
     <<"@", "B", "a", "s", "e", "C", "l", "a", "s", "s", " ", "b", "a", "s",
       "e", "1", " ", "b", "a", "s", "e", "2", "(", "1", ",", "2", ")", " ",
       "=", " ", "N", "a", "m", "e", " ", "[", " ", "]">>,
     \* @PointClass tags("a") size(-8 -8, 8 8) = b : "B" + "more" [ ] @version(08.50)
     <<"@", "P", "o", "i", "n", "t", "C", "l", "a", "s", "s", " ", "t", "a",
       "g", "s", "(", "\"", "a", "\"", ")", " ", "s", "i", "z", "e", "(",
       "-", "8", " ", "-", "8", ",", " ", "8", " ", "8", ")", " ", "=", " ",
       "b", " ", ":", " ", "\"", "B", "\"", " ", "+", " ", "\"", "m", "o",
       "r", "e", "\"", " ", "[", " ", "]", " ", "@", "v", "e", "r", "s", "i",
       "o", "n", "(", "0", "8", ".", "5", "0", ")">>,
     \* @PointClass tags(a, b == c, a) halfgridsnap = t []
     <<"@", "P", "o", "i", "n", "t", "C", "l", "a", "s", "s", " ", "t", "a",
       "g", "s", "(", "a", ",", " ", "b", " ", "=", "=", " ", "c", ",", " ",
       "a", ")", " ", "h", "a", "l", "f", "g", "r", "i", "d", "s", "n", "a",
       "p", " ", "=", " ", "t", " ", "[", "]">>,
     \* @PointClass [ ]
     <<"@", "P", "o", "i", "n", "t", "C", "l", "a", "s", "s", " ", "[", " ",
       "]">>,
     \* @PointClass = a @PointClass = a @SolidClass = b [ p(integer) q(string) ]
     <<"@", "P", "o", "i", "n", "t", "C", "l", "a", "s", "s", " ", "=", " ",
       "a", " ", "@", "P", "o", "i", "n", "t", "C", "l", "a", "s", "s", " ",
       "=", " ", "a", " ", "@", "S", "o", "l", "i", "d", "C", "l", "a", "s",
       "s", " ", "=", " ", "b", " ", "[", " ", "p", "(", "i", "n", "t", "e",
       "g", "e", "r", ")", " ", "q", "(", "s", "t", "r", "i", "n", "g", ")",
       " ", "]">>,
     \* @SolidClass = worldspawn : "World entity" [ message(string) : "Text on entering the world" ]
     <<"@", "S", "o", "l", "i", "d", "C", "l", "a", "s", "s", " ", "=", " ",
       "w", "o", "r", "l", "d", "s", "p", "a", "w", "n", " ", ":", " ", "\"",
       "W", "o", "r", "l", "d", " ", "e", "n", "t", "i", "t", "y", "\"", " ",
       "[", " ", "m", "e", "s", "s", "a", "g", "e", "(", "s", "t", "r", "i",
       "n", "g", ")", " ", ":", " ", "\"", "T", "e", "x", "t", " ", "o", "n",
       " ", "e", "n", "t", "e", "r", "i", "n", "g", " ", "t", "h", "e", " ",
       "w", "o", "r", "l", "d", "\"", " ", "]">>,
     \* @SolidClass = worldspawn : "World entity" [ message(string) : "Msg" : "dflt" : "Desc" ]
     <<"@", "S", "o", "l", "i", "d", "C", "l", "a", "s", "s", " ", "=", " ",
       "w", "o", "r", "l", "d", "s", "p", "a", "w", "n", " ", ":", " ", "\"",
       "W", "o", "r", "l", "d", " ", "e", "n", "t", "i", "t", "y", "\"", " ",
       "[", " ", "m", "e", "s", "s", "a", "g", "e", "(", "s", "t", "r", "i",
       "n", "g", ")", " ", ":", " ", "\"", "M", "s", "g", "\"", " ", ":",
       " ", "\"", "d", "f", "l", "t", "\"", " ", ":", " ", "\"", "D", "e",
       "s", "c", "\"", " ", "]">>,
     \* @SolidClass = worldspawn : "World entity" [ message(string) : "Msg" : : "Desc" ]
     <<"@", "S", "o", "l", "i", "d", "C", "l", "a", "s", "s", " ", "=", " ",
       "w", "o", "r", "l", "d", "s", "p", "a", "w", "n", " ", ":", " ", "\"",
       "W", "o", "r", "l", "d", " ", "e", "n", "t", "i", "t", "y", "\"", " ",
       "[", " ", "m", "e", "s", "s", "a", "g", "e", "(", "s", "t", "r", "i",
       "n", "g", ")", " ", ":", " ", "\"", "M", "s", "g", "\"", " ", ":",
       " ", ":", " ", "\"", "D", "e", "s", "c", "\"", " ", "]">>,
     \* @SolidClass = worldspawn : "World entity" [ input Kill(void) : "Kills." output OnUser1(void) OnHit(void) ]
     <<"@", "S", "o", "l", "i", "d", "C", "l", "a", "s", "s", " ", "=", " ",
       "w", "o", "r", "l", "d", "s", "p", "a", "w", "n", " ", ":", " ", "\"",
       "W", "o", "r", "l", "d", " ", "e", "n", "t", "i", "t", "y", "\"", " ",
       "[", " ", "i", "n", "p", "u", "t", " ", "K", "i", "l", "l", "(", "v",
       "o", "i", "d", ")", " ", ":", " ", "\"", "K", "i", "l", "l", "s", ".",
       "\"", " ", "o", "u", "t", "p", "u", "t", " ", "O", "n", "U", "s", "e",
       "r", "1", "(", "v", "o", "i", "d", ")", " ", "O", "n", "H", "i", "t",
       "(", "v", "o", "i", "d", ")", " ", "]">>,
     \* @PointClass = a [ spawnflags(flags) = [ 1 : "On" : 0 2 : "Hard" : 1 : "d" ] ]
     <<"@", "P", "o", "i", "n", "t", "C", "l", "a", "s", "s", " ", "=", " ",
       "a", " ", "[", " ", "s", "p", "a", "w", "n", "f", "l", "a", "g", "s",
       "(", "f", "l", "a", "g", "s", ")", " ", "=", " ", "[", " ", "1", " ",
       ":", " ", "\"", "O", "n", "\"", " ", ":", " ", "0", " ", "2", " ",
       ":", " ", "\"", "H", "a", "r", "d", "\"", " ", ":", " ", "1", " ",
       ":", " ", "\"", "d", "\"", " ", "]", " ", "]">>,
     \* @PointClass = a [ mode(choices) [ report, group="G", !x, y="" ] : "Mode" : 0 = [ 0 : "No" ] ]
     <<"@", "P", "o", "i", "n", "t", "C", "l", "a", "s", "s", " ", "=", " ",
       "a", " ", "[", " ", "m", "o", "d", "e", "(", "c", "h", "o", "i", "c",
       "e", "s", ")", " ", "[", " ", "r", "e", "p", "o", "r", "t", ",", " ",
       "g", "r", "o", "u", "p", "=", "\"", "G", "\"", ",", " ", "!", "x",
       ",", " ", "y", "=", "\"", "\"", " ", "]", " ", ":", " ", "\"", "M",
       "o", "d", "e", "\"", " ", ":", " ", "0", " ", "=", " ", "[", " ", "0",
       " ", ":", " ", "\"", "N", "o", "\"", " ", "]", " ", "]">>,
     \* @PointClass = a [ skin(integer) { a = 1, b = [ c { d } ], e = { f } } ]
     <<"@", "P", "o", "i", "n", "t", "C", "l", "a", "s", "s", " ", "=", " ",
       "a", " ", "[", " ", "s", "k", "i", "n", "(", "i", "n", "t", "e", "g",
       "e", "r", ")", " ", "{", " ", "a", " ", "=", " ", "1", ",", " ", "b",
       " ", "=", " ", "[", " ", "c", " ", "{", " ", "d", " ", "}", " ", "]",
       ",", " ", "e", " ", "=", " ", "{", " ", "f", " ", "}", " ", "}", " ",
       "]">>,
     \* @PointClass = a [ angle(*Integer:x) readonly report : "Angle" ]
     <<"@", "P", "o", "i", "n", "t", "C", "l", "a", "s", "s", " ", "=", " ",
       "a", " ", "[", " ", "a", "n", "g", "l", "e", "(", "*", "I", "n", "t",
       "e", "g", "e", "r", ":", "x", ")", " ", "r", "e", "a", "d", "o", "n",
       "l", "y", " ", "r", "e", "p", "o", "r", "t", " ", ":", " ", "\"", "A",
       "n", "g", "l", "e", "\"", " ", "]">>,
     \* @PointClass = a [ x(integer) = 7 ]
     <<"@", "P", "o", "i", "n", "t", "C", "l", "a", "s", "s", " ", "=", " ",
       "a", " ", "[", " ", "x", "(", "i", "n", "t", "e", "g", "e", "r", ")",
       " ", "=", " ", "7", " ", "]">>,
     \* @version(8)
     <<"@", "v", "e", "r", "s", "i", "o", "n", "(", "8", ")">>,
     \* @version(8) // end\n
     <<"@", "v", "e", "r", "s", "i", "o", "n", "(", "8", ")", " ", "/", "/",
       " ", "e", "n", "d", "\n">>,
     \* @include "base.fgd"
     <<"@", "i", "n", "c", "l", "u", "d", "e", " ", "\"", "b", "a", "s", "e",
       ".", "f", "g", "d", "\"">>,
     \* @include "a" 12
     <<"@", "i", "n", "c", "l", "u", "d", "e", " ", "\"", "a", "\"", " ",
       "1", "2">>,
     \* @exclude foo
     <<"@", "e", "x", "c", "l", "u", "d", "e", " ", "f", "o", "o">>,
     \* @mapsize(-16384, 16384)
     <<"@", "m", "a", "p", "s", "i", "z", "e", "(", "-", "1", "6", "3", "8",
       "4", ",", " ", "1", "6", "3", "8", "4", ")">>,
     \* @MaterialExclusion [ "a" "b" ]
     <<"@", "M", "a", "t", "e", "r", "i", "a", "l", "E", "x", "c", "l", "u",
       "s", "i", "o", "n", " ", "[", " ", "\"", "a", "\"", " ", "\"", "b",
       "\"", " ", "]">>,
     \* @AutoVisGroup = "Brushes" [ "Triggers" [ "trigger_once", ] ]
     <<"@", "A", "u", "t", "o", "V", "i", "s", "G", "r", "o", "u", "p", " ",
       "=", " ", "\"", "B", "r", "u", "s", "h", "e", "s", "\"", " ", "[",
       " ", "\"", "T", "r", "i", "g", "g", "e", "r", "s", "\"", " ", "[",
       " ", "\"", "t", "r", "i", "g", "g", "e", "r", "_", "o", "n", "c", "e",
       "\"", ",", " ", "]", " ", "]">>,
     \* @EntityGroup "Lights" { start_expanded = true }
     <<"@", "E", "n", "t", "i", "t", "y", "G", "r", "o", "u", "p", " ", "\"",
       "L", "i", "g", "h", "t", "s", "\"", " ", "{", " ", "s", "t", "a", "r",
       "t", "_", "e", "x", "p", "a", "n", "d", "e", "d", " ", "=", " ", "t",
       "r", "u", "e", " ", "}">>,
     \* @VisGroupFilter { filter_type = "material" }
     <<"@", "V", "i", "s", "G", "r", "o", "u", "p", "F", "i", "l", "t", "e",
       "r", " ", "{", " ", "f", "i", "l", "t", "e", "r", "_", "t", "y", "p",
       "e", " ", "=", " ", "\"", "m", "a", "t", "e", "r", "i", "a", "l",
       "\"", " ", "}">>,
     \* @unknown
     <<"@", "u", "n", "k", "n", "o", "w", "n">>,
     \* foo
     <<"f", "o", "o">>,
     \* @PointClass base(
     <<"@", "P", "o", "i", "n", "t", "C", "l", "a", "s", "s", " ", "b", "a",
       "s", "e", "(">>,
     \* @PointClass base( ]
     <<"@", "P", "o", "i", "n", "t", "C", "l", "a", "s", "s", " ", "b", "a",
       "s", "e", "(", " ", "]">>,
     \* @PointClass = a [ x(string) : "unterminated
     <<"@", "P", "o", "i", "n", "t", "C", "l", "a", "s", "s", " ", "=", " ",
       "a", " ", "[", " ", "x", "(", "s", "t", "r", "i", "n", "g", ")", " ",
       ":", " ", "\"", "u", "n", "t", "e", "r", "m", "i", "n", "a", "t", "e",
       "d">>}

\* A directive of a text that is built from directives: its text, the type
\* of the node it stands for, and the name of that node where it has one.
Directive(text, type, name) == [text |-> text, type |-> type, name |-> name]

\* single directives, each well formed; the entity group holds an @ that
\* is not at the top level, and the solid class has no body
DirectivePool ==
    {Directive(<<"@", "v", "e", "r", "s", "i", "o", "n", "(", "8", ")">>, "Version", <<>>),
     Directive(<<"@", "i", "n", "c", "l", "u", "d", "e", " ", "\"", "b", "a", "s", "e", ".", "f", "g", "d", "\"">>, "Include", <<"b", "a", "s", "e", ".", "f", "g", "d">>),
     Directive(<<"@", "m", "a", "p", "s", "i", "z", "e", "(", "-", "1", ",", " ", "1", ")">>, "MapSize", <<>>),
     Directive(<<"@", "E", "n", "t", "i", "t", "y", "G", "r", "o", "u", "p", " ", "\"", "L", "\"", " ", "{", " ", "a", " ", "=", " ", "@", " ", "}">>, "EntityGroup", <<"L">>),
     Directive(<<"@", "B", "a", "s", "e", "C", "l", "a", "s", "s", " ", "b", "a", "s", "e", "1", " ", "=", " ", "N", "a", "m", "e", " ", "[", "]">>, "Class", <<"N", "a", "m", "e">>),
     Directive(<<"@", "P", "o", "i", "n", "t", "C", "l", "a", "s", "s", " ", "=", " ", "a", " ", "[", " ", "x", "(", "s", "t", "r", "i", "n", "g", ")", " ", "]">>, "Class", <<"a">>),
     Directive(<<"@", "S", "o", "l", "i", "d", "C", "l", "a", "s", "s", " ", "=", " ", "b">>, "Class", <<"b">>)}

\* the sequences of up to MaxDirectives directives
DirectiveSeqs == UNION {[1..n -> DirectivePool] : n \in 0..MaxDirectives}

\* the text of a sequence of directives, one directive to a line
RECURSIVE Join(_)
Join(directives) ==
    IF directives = <<>> THEN <<>>
    ELSE Head(directives).text \o <<"\n">> \o Join(Tail(directives))

DirectiveInputs == {Join(directives) : directives \in DirectiveSeqs}

\* @PointClass base1 NAME(ARGS) = t []
BaseClause(name, args) ==
    <<"@", "P", "o", "i", "n", "t", "C", "l", "a", "s", "s", " ", "b", "a", "s", "e", "1", " ">> \o name \o <<"(">> \o args \o <<")", " ", "=", " ", "t", " ", "[", "]">>

\* single arguments that are literals: an identifier, a number, a string
LiteralArgs == {<<"a">>, <<"-", "8">>, <<"\"", "s", "\"">>}

\* single arguments that are compound expressions
CompoundArgs == {<<"a", " ", "+", " ", "b">>, <<"-", "a">>, <<"a", "[", "1", "]">>, <<"{", " ", "k", ":", " ", "v", " ", "}">>, <<"(", "a", ")">>}

\* @PointClass base1 tags(a, b, c) = t []
ThreeArgs == BaseClause(<<"t", "a", "g", "s">>, <<"a", ",", " ", "b", ",", " ", "c">>)

\* @PointClass base1 size() = t []
NoArgs == BaseClause(<<"s", "i", "z", "e">>, <<>>)

BaseClauseInputs ==
    {BaseClause(<<"t", "a", "g", "s">>, args) : args \in LiteralArgs \cup CompoundArgs}
        \cup {ThreeArgs, NoArgs}

\* texts that end, or go on with a `]`, inside an argument list, a switch
\* or a map that has not been closed
UnclosedInputs ==
    {\* @PointClass base(
     <<"@", "P", "o", "i", "n", "t", "C", "l", "a", "s", "s", " ", "b", "a", "s", "e", "(">>,
     \* @PointClass base(a ]
     <<"@", "P", "o", "i", "n", "t", "C", "l", "a", "s", "s", " ", "b", "a", "s", "e", "(", "a", " ", "]">>,
     \* @PointClass base({{ a
     <<"@", "P", "o", "i", "n", "t", "C", "l", "a", "s", "s", " ", "b", "a", "s", "e", "(", "{", "{", " ", "a">>,
     \* @PointClass base({{ a ]
     <<"@", "P", "o", "i", "n", "t", "C", "l", "a", "s", "s", " ", "b", "a", "s", "e", "(", "{", "{", " ", "a", " ", "]">>,
     \* @PointClass base({ a: b
     <<"@", "P", "o", "i", "n", "t", "C", "l", "a", "s", "s", " ", "b", "a", "s", "e", "(", "{", " ", "a", ":", " ", "b">>,
     \* @PointClass base({ a: b ]
     <<"@", "P", "o", "i", "n", "t", "C", "l", "a", "s", "s", " ", "b", "a", "s", "e", "(", "{", " ", "a", ":", " ", "b", " ", "]">>}

\* texts whose last token is a quoted string, texts with a comment or a
\* space after the last token, and a text that ends with a number
TrailingInputs ==
    {\* @include "base.fgd"
     <<"@", "i", "n", "c", "l", "u", "d", "e", " ", "\"", "b", "a", "s", "e", ".", "f", "g", "d", "\"">>,
     \* @version(8) // end\n
     <<"@", "v", "e", "r", "s", "i", "o", "n", "(", "8", ")", " ", "/", "/", " ", "e", "n", "d">> \o <<"\n">>,
     \* @version(8)
     <<"@", "v", "e", "r", "s", "i", "o", "n", "(", "8", ")">>,
     \* @version(8)  (a space after it)
     <<"@", "v", "e", "r", "s", "i", "o", "n", "(", "8", ")", " ">>,
     \* @PointClass = 1
     <<"@", "P", "o", "i", "n", "t", "C", "l", "a", "s", "s", " ", "=", " ", "1">>}

ParseInputs ==
    {TwoStrings(S1, S2) : S1 \in Titles, S2 \in Texts}
        \cup SemicolonInputs
        \cup OtherInputs
        \cup DirectiveInputs
        \cup BaseClauseInputs
        \cup UnclosedInputs
        \cup TrailingInputs

ParseInit ==
    /\ \E input \in ParseInputs : ps = parse(input)
    /\ LaIdle
    /\ tk = Idle
    /\ ex = Idle
    /\ ms = Idle

\* one call of next() on the generator
GeneratorNext ==
    /\ ps.pc \in {"loop", "end"}
    /\ \E uuid \in UUIDs : ps' = ParseResume(ps, uuid)
    /\ UNCHANGED <<laVars, tk, ex, ms>>

ParseNext == GeneratorNext

ParseSpec == ParseInit /\ [][ParseNext]_vars

(***************************************************************************)
(* MatchSpec: a TokenStream over each text of MatchInputs, driven by any   *)
(* sequence of match() and next() calls.                                   *)
(***************************************************************************)
\* the lexemes of the texts: two identifiers, a symbol, and a character
\* that the tokenizer fails on
Lexemes == {"a", "b", "@", ";"}

\* the text of a sequence of lexemes, a space after each
RECURSIVE Spaced(_)
Spaced(lexemes) ==
    IF lexemes = <<>> THEN <<>>
    ELSE <<Head(lexemes), " ">> \o Spaced(Tail(lexemes))

MatchInputs == {Spaced(lexemes) : lexemes \in SeqsUpTo(Lexemes, MaxLexemes)}

\* the arguments of the match() calls
MatchTypes == {"ident", "symbol"}
MatchValues == {NoValue, <<"a">>}

MsInit ==
    /\ \E input \in MatchInputs :
          ms = [ts |-> TokenStream(input), last |-> [op |-> "none"]]
    /\ LaIdle
    /\ tk = Idle
    /\ ex = Idle
    /\ ps = Idle

\* tokens.match(type, value)
CallMatch ==
    /\ ms.ts.status = "ok"
    /\ \E type \in MatchTypes, value \in MatchValues :
          ms' = With([r \in {match(ms.ts, type, value)} |->
                    [ts |-> r.ts,
                     last |-> [op |-> "match", type |-> type, value |-> value,
                               result |-> r.v, before |-> ms.ts]]])
    /\ UNCHANGED <<laVars, tk, ex, ps>>

\* tokens.next()
CallTokenStreamNext ==
    /\ ms.ts.status = "ok"
    /\ TokenStream_more(ms.ts)
    /\ ms' = [ts |-> TokenStream_next(ms.ts).ts, last |-> [op |-> "next"]]
    /\ UNCHANGED <<laVars, tk, ex, ps>>

MsNext == CallMatch \/ CallTokenStreamNext

MatchSpec == MsInit /\ [][MsNext]_vars

(***************************************************************************)
(* Claims about the lookahead stream, checked under LookaheadSpec.         *)
(***************************************************************************)
\* how far ahead the futures of two streams are compared
Horizon == MaxSrc + MaxBack + 2

\* the results of the next k calls of next(), from l
RECURSIVE NextResults(_, _)
NextResults(l, k) ==
    IF k = 0
    THEN <<>>
    ELSE LET r == next(l)
         IN  <<IF r.done THEN EndOfSequence ELSE r.value>> \o NextResults(r.la, k - 1)

\* the items next() has returned so far, oldest first
Consumed == SelectSeq(out, LAMBDA v : v # EndOfSequence)

\* C1: with no back() call, whatever ahead() and behind() calls are
\* interleaved, the k-th next() returns the k-th item of the source, and
\* every next() after the last item returns the end-of-sequence signal.
C1_NextYieldsSourceInOrder ==
    backs = 0 =>
        \A k \in 1..Len(out) :
            out[k] = IF k <= Len(la.src) THEN la.src[k] ELSE EndOfSequence

C1_Witness ==
    /\ backs = 0
    /\ Len(la.src) >= 3
    /\ Len(out) >= Len(la.src) + 2
    /\ last.op = "next"

\* C2: in every reachable state, ahead(i) for 1 <= i <= size returns the
\* result of the i-th subsequent next() (none when that is the end of the
\* sequence), returns it again when repeated, and leaves the results of
\* all later next() calls as they were.
C2_AheadPeeksWithoutConsuming ==
    \A i \in 1..la.size :
        LET a == ahead(la, i)
            fut == NextResults(la, Horizon)
        IN  /\ ~a.thrown
            /\ a.value = (IF fut[i] = EndOfSequence THEN Undefined ELSE fut[i])
            /\ ahead(a.la, i).value = a.value
            /\ NextResults(a.la, Horizon) = fut

C2_Witness ==
    /\ last.op = "ahead"
    /\ last.value \notin {Undefined, RangeError}
    /\ backs > 0
    /\ Len(Consumed) > 0
    /\ la.pos < Len(la.src)

\* C3: right after next() returned x and back(x) was called, the results
\* of the following next() calls are those the stream would have given
\* before that next(): x first, then the same items.
C3_BackUndoesNext ==
    undo =>
        /\ NextResults(la, 1) = <<last.value>>
        /\ NextResults(la, Horizon) = NextResults(pre, Horizon)

\* the undone next() had returned the last item of the source
C3_Witness ==
    /\ undo
    /\ backs = 1
    /\ Len(la.src) >= 2
    /\ la.pos = Len(la.src)
    /\ la.aheadCache = <<la.src[Len(la.src)]>>

\* C4 as stated: behind(i) is the i-th most recently consumed item (i = 1
\* the item of the latest next()), none while fewer than i were consumed.
C4_BehindIsIthMostRecent ==
    backs = 0 =>
        \A i \in 1..la.size :
            behind(la, i).value =
                IF Len(Consumed) >= i
                THEN Consumed[Len(Consumed) - i + 1]
                ELSE Undefined

\* C4 amended: with no back() call, behind(i) is the item consumed i calls
\* before the latest one, that is the (i+1)-th most recently consumed item,
\* and none while fewer than i + 1 items were consumed.
C4_BehindSkipsLatest ==
    backs = 0 =>
        \A i \in 1..la.size :
            behind(la, i).value =
                IF Len(Consumed) >= i + 1
                THEN Consumed[Len(Consumed) - i]
                ELSE Undefined

C4_Witness ==
    /\ backs = 0
    /\ last.op = "behind"
    /\ Len(Consumed) >= 4
    /\ last.value = Consumed[Len(Consumed) - 2]

\* C5 as stated: done() is true exactly when the source is exhausted and
\* the ahead buffer is empty, and more() is its negation.
C5_DoneIffExhausted ==
    LET exhausted == la.pos = Len(la.src) /\ Len(la.aheadCache) = 0
    IN  /\ done(la) = exhausted
        /\ TokenStream_more(TokenStreamOver(<<>>, la)) = ~exhausted

\* C5 amended: done() is true exactly when the latest next() call returned
\* the end-of-sequence signal and no back() was called since (then the
\* source is exhausted and the buffer empty); more() is its negation.
C5_DoneIffNextReportedEnd ==
    /\ done(la) = eos
    /\ TokenStream_more(TokenStreamOver(<<>>, la)) = ~eos
    /\ eos => la.pos = Len(la.src) /\ Len(la.aheadCache) = 0

\* right after the next() that returned the last item
C5_Witness ==
    /\ last.op = "next"
    /\ Len(la.src) >= 1
    /\ last.value = la.src[Len(la.src)]
    /\ la.pos = Len(la.src)
    /\ Len(la.aheadCache) = 0
    /\ ~done(la)

(***************************************************************************)
(* Claims about the tokenizer, checked under TokenizerSpec.                *)
(***************************************************************************)
\* C6: the tokenizer ends on every text; in particular a string literal
\* whose scan reaches the end of the text without a closing quote ends the
\* tokenizer with an error there, it does not go on scanning.
C6_UnterminatedStringFails ==
    [][(tk.pc = "string" /\ tk.idx + 1 >= Len(tk.input)) => tk'.pc = "error"]_vars

(***************************************************************************)
(* Claims about the expression parser, checked under ExpressionSpec.       *)
(***************************************************************************)
\* v with every span cleared
RECURSIVE Strip(_)
Strip(v) ==
    [v EXCEPT !.span = <<0, 0>>,
              !.kids = [k \in 1..Len(v.kids) |-> Strip(v.kids[k])]]

Infix(op, lhs, rhs) == Expr(<<0, 0>>, "infix", op, lhs, rhs)

\* the table's operators that reach the parser as operators: `x op y`
\* parses to the infix node of op
InfixOperators ==
    {op \in TableOps :
        LET r == parse_expression(TokenStream(Binary(op)), 0)
        IN  r.ts.status = "ok" /\ Strip(r.v) = Infix(op, Str(<<"x">>), Str(<<"y">>))}

\* C8: for infix operators op1, op2 of equal binding power, `x op1 y op2 z`
\* parses to the node of op2 with lhs (x op1 y) and rhs z.
C8_EqualPowerAssociatesLeft ==
    \A op1 \in InfixOperators, op2 \in InfixOperators :
        (/\ expression_precedence(op1) = expression_precedence(op2)
         /\ ex.input = Chain(op1, op2)
         /\ ex.pc # "start")
        => /\ ex.pc = "ok"
           /\ Strip(ex.result) =
                  Infix(op2, Infix(op1, Str(<<"x">>), Str(<<"y">>)), Str(<<"z">>))

C7_SecondStringIsDescription ==
    \A S1 \in Titles, S2 \in Texts :
        (ps.input = TwoStrings(S1, S2) /\ Len(ps.out) >= 1)
        => /\ ps.out[1].type = "Class"
           /\ Len(ps.out[1].body) = 1
           /\ ps.out[1].body[1].description = S2
           /\ ps.out[1].body[1].default = Null
           /\ (S1 = <<>> => ps.out[1].body[1].title = <<>>)

\* C7, amended: the property  name(type) : S1 : S2  has the text of S2 as
\* its default; its description is "" and its title S1 (without a final
\* full stop), unless the heuristic takes S1 for a description, and then
\* its description is S1 and its title "".  With S1 empty both are "".
C7_SecondStringIsDefault ==
    \A S1 \in Titles, S2 \in Texts :
        (ps.input = TwoStrings(S1, S2) /\ Len(ps.out) >= 1)
        => /\ ps.out[1].type = "Class"
           /\ Len(ps.out[1].body) = 1
           /\ ps.out[1].body[1].default = Str(S2)
           /\ IF S1 # <<>> /\ TitleIsDescription(S1)
              THEN /\ ps.out[1].body[1].description = S1
                   /\ ps.out[1].body[1].title = <<>>
              ELSE /\ ps.out[1].body[1].description = <<>>
                   /\ ps.out[1].body[1].title =
                          IF endsWith(S1, <<".">>) THEN SubSeq(S1, 1, Len(S1) - 1) ELSE S1
           /\ (S1 = <<>> => /\ ps.out[1].body[1].title = <<>>
                            /\ ps.out[1].body[1].description = <<>>)

\* the class of  message(string) : "" : "Text on entering the world"  has
\* been yielded, with that text as the default of its property
C7_Witness ==
    /\ ps.input = TwoStrings(<<>>, <<"T", "e", "x", "t", " ", "o", "n", " ", "e", "n", "t", "e", "r",
          "i", "n", "g", " ", "t", "h", "e", " ", "w", "o", "r", "l", "d">>)
    /\ Len(ps.out) >= 1
    /\ ps.out[1].kind = <<"S", "o", "l", "i", "d", "C", "l", "a", "s", "s">>
    /\ ps.out[1].name = <<"w", "o", "r", "l", "d", "s", "p", "a", "w", "n">>
    /\ ps.out[1].body[1].title = <<>>
    /\ ps.out[1].body[1].default.t = "string"
    /\ ps.out[1].body[1].default.s # <<>>

\* C10: a class declaration whose header is followed by ; parses without
\* error to a Class node with an empty body, and parsing goes on with the
\* next directive.
C10_SemicolonEndsDeclaration ==
    /\ \A text \in SemicolonInputs :
          (ps.input = text /\ ps # parse(text))
          => /\ ps.pc \notin {"error", "hang"}
             /\ Len(ps.out) >= 1
             /\ ps.out[1].type = "Class"
             /\ ps.out[1].body = <<>>
    /\ (ps.input = SemicolonThenVersion /\ ps.pc = "done")
       => /\ Len(ps.out) = 3
          /\ ps.out[2].type = "Version"

MetadataType == "__PARSER_METADATA__"

\* the node that parse yielded for a directive
NodeOf(node, directive) ==
    /\ node.type = directive.type
    /\ directive.type \in {"Class", "Include", "EntityGroup"} => node.name = directive.name

\* C11: when parse has gone through a text without an error, it has
\* yielded one node for each top-level directive of the text, in the order
\* of the text, and then the one metadata node, which is the last node; for
\* the empty text the metadata node is the only node.  Before that, the
\* nodes yielded are those of the first directives and none is a metadata
\* node.
C11_OneNodePerDirectiveThenMetadata ==
    /\ ps.pc \in {"end", "done"}
       => /\ Len(ps.out) >= 1
          /\ \A k \in 1..Len(ps.out) : ps.out[k].type = MetadataType <=> k = Len(ps.out)
    /\ ps.pc \notin {"end", "done"}
       => \A k \in 1..Len(ps.out) : ps.out[k].type # MetadataType
    /\ \A directives \in DirectiveSeqs :
           ps.input = Join(directives)
           => /\ ps.pc \in {"loop", "end", "done"}
              /\ ps.pc = "loop"
                 => /\ Len(ps.out) <= Len(directives)
                    /\ \A k \in 1..Len(ps.out) : NodeOf(ps.out[k], directives[k])
              /\ ps.pc \in {"end", "done"}
                 => /\ Len(ps.out) = Len(directives) + 1
                    /\ \A k \in 1..Len(directives) : NodeOf(ps.out[k], directives[k])
                    /\ ps.out[Len(ps.out)].type = MetadataType

\* parse has returned after a text of two directives of different types,
\* with three nodes yielded
C11_Witness ==
    /\ \E directives \in DirectiveSeqs :
          /\ Len(directives) = 2
          /\ directives[1].type # directives[2].type
          /\ ps.input = Join(directives)
    /\ ps.pc = "done"
    /\ Len(ps.out) = 3
    /\ ps.out[3].type = MetadataType

(***************************************************************************)
(* Claims about the TokenStream, checked under MatchSpec.                  *)
(***************************************************************************)
MatchHorizon == MaxLexemes + 2

\* what the next MatchHorizon calls of next() on the stream return
Upcoming(ts) == NextResults(ts.tokens, MatchHorizon)

\* the token has the type and, where a text is given, the text
Wanted(ts, token, type, value) ==
    /\ token # EndOfSequence
    /\ token.type = type
    /\ value = NoValue \/ span(ts, token) = value

\* C12: a match(type, value) call that returns has returned true and
\* consumed one token (the next token, which is now current) when the next
\* token has the type, and the text when one is given; otherwise, also at
\* the end of the input, it has returned false, and current(), more(), and
\* what every later next() and ahead() call returns are as they were.  It
\* fails only when the tokenizer fails.
C12_MatchConsumesOnlyOnMatch ==
    ms.last.op = "match" =>
        LET before == ms.last.before
            after == ms.ts
            fut == Upcoming(before)
        IN  /\ after.status # "ok" => before.tokens.tail # "done"
            /\ after.status = "ok" =>
                  IF Wanted(before, fut[1], ms.last.type, ms.last.value)
                  THEN /\ ms.last.result = TRUE
                       /\ current(after) = fut[1]
                       /\ Upcoming(after) = Tail(fut) \o <<EndOfSequence>>
                  ELSE /\ ms.last.result = FALSE
                       /\ current(after) = current(before)
                       /\ TokenStream_more(after) = TokenStream_more(before)
                       /\ Upcoming(after) = fut
                       /\ \A i \in 1..DefaultSize :
                             ahead(after.tokens, i).value = ahead(before.tokens, i).value

\* match has returned false on a stream whose next token is of the type
\* asked for but of another text, and it has filled the buffer of the
\* lookahead object
C12_Witness ==
    /\ ms.last.op = "match"
    /\ ms.ts.status = "ok"
    /\ ms.last.result = FALSE
    /\ ms.last.value # NoValue
    /\ Upcoming(ms.ts)[1] # EndOfSequence
    /\ Upcoming(ms.ts)[1].type = ms.last.type
    /\ ms.ts.tokens # ms.last.before.tokens

\* the text of a literal, as a value: a string is stored without its quotes
LiteralValue(text) ==
    Str(IF Head(text) = "\"" THEN SubSeq(text, 2, Len(text) - 1) ELSE text)

\* the base clauses of the class that parse yielded first
Impl == ps.out[1].impl

\* C13, as the specification states it: a base clause with one argument has
\* that argument itself as its args, be it a literal or a compound
\* expression; with more arguments args is their list, in the order of the
\* text; and a bare base name has args = [].
C13_SingleArgumentCollapses ==
    Len(ps.out) >= 1 =>
        /\ \A args \in LiteralArgs :
              ps.input = BaseClause(<<"t", "a", "g", "s">>, args) => Impl[2].args = LiteralValue(args)
        /\ \A args \in CompoundArgs :
              ps.input = BaseClause(<<"t", "a", "g", "s">>, args)
              => Impl[2].args.t \in {"infix", "postfix", "unary"}
        /\ ps.input = ThreeArgs
              => Impl[2].args = Array(<<Str(<<"a">>), Str(<<"b">>), Str(<<"c">>)>>)
        /\ ps.input \in BaseClauseInputs => Impl[1] = BaseDecl(<<"b", "a", "s", "e", "1">>, Array(<<>>))

\* C13, amended: a base clause with one argument that is a literal (an
\* identifier, a number or a string) has the text of the literal as its
\* args; one argument that is a compound expression stays in a list of one
\* item; with more arguments args is their list, in the order of the text;
\* a bare base name and an empty argument list have args = [].
C13_SingleLiteralCollapses ==
    Len(ps.out) >= 1 =>
        /\ \A args \in LiteralArgs :
              ps.input = BaseClause(<<"t", "a", "g", "s">>, args) => Impl[2].args = LiteralValue(args)
        /\ \A args \in CompoundArgs :
              ps.input = BaseClause(<<"t", "a", "g", "s">>, args)
              => /\ Impl[2].args.t = "array"
                 /\ Len(Impl[2].args.kids) = 1
                 /\ Impl[2].args.kids[1].t \in {"infix", "postfix", "unary"}
        /\ ps.input = ThreeArgs
              => Impl[2].args = Array(<<Str(<<"a">>), Str(<<"b">>), Str(<<"c">>)>>)
        /\ ps.input = NoArgs => Impl[2].args = Array(<<>>)
        /\ ps.input \in BaseClauseInputs
              => /\ Len(Impl) = 2
                 /\ Impl[1] = BaseDecl(<<"b", "a", "s", "e", "1">>, Array(<<>>))

\* the class of  @PointClass base1 tags(a + b) = t []  has been yielded,
\* with a list of one infix node as the args of tags
C13_Witness ==
    /\ ps.input = BaseClause(<<"t", "a", "g", "s">>, <<"a", " ", "+", " ", "b">>)
    /\ Len(ps.out) >= 1
    /\ ps.pc \in {"loop", "end", "done"}
    /\ Impl[2].name = <<"t", "a", "g", "s">>
    /\ Impl[2].args.t = "array"
    /\ Impl[2].args.kids[1].s = <<"+">>

\* C14: on every text on which the tokenizer comes to an end, every call of
\* the generator's next() returns or throws: an argument list, a switch or
\* a map that is not closed makes it throw, and never loop forever.
C14_ParseTerminates ==
    TokenizerRun(tokenizer(ps.input)).pc # "hang" => ps.pc # "hang"

(***************************************************************************)
(* Claims about the spans of tokens, checked under TokenizerSpec.          *)
(***************************************************************************)
\* C15: every token that the tokenizer has yielded has a span [start, end)
\* with 0 <= start <= end <= length(input), a number or an identifier that
\* ends at the last character of the text included.
C15_TokenSpansInsideInput ==
    \A i \in 1..Len(tk.tokens) :
        /\ 0 <= tk.tokens[i].span[1]
        /\ tk.tokens[i].span[1] <= tk.tokens[i].span[2]
        /\ tk.tokens[i].span[2] <= Len(tk.input)

(***************************************************************************)
(* Claims about the span of the metadata node, checked under ParseSpec.    *)
(***************************************************************************)
\* C16: once parse has come to its end without an error, the span of the
\* metadata node is [0, length(input)], also when a space or a comment
\* follows the last directive and when the last token is a quoted string.
C16_MetadataSpansInput ==
    ps.pc \in {"end", "done"}
    => ps.out[Len(ps.out)].span = <<0, Len(ps.input)>>

====
